---- MODULE Spec2Model ----
(***************************************************************************)
(* Profile analysis engine of the profiler: call-node table, self/total    *)
(* aggregation (normal and inverted), the CallTree query object and the    *)
(* thread filter pipeline of the per-thread selectors.                     *)
(*                                                                         *)
(* Index convention.  The code indexes its tables from 0 and writes -1     *)
(* (call nodes) or null (stacks) for "none".  TLA+ sequences start at 1,   *)
(* so row k of the code is element k+1 here and "none" is 0: the code's    *)
(* call node 0 is call node 1 of the model, the code's getChildren(-1) is  *)
(* getChildren(.., 0).                                                     *)
(*                                                                         *)
(* Numbers.  The code accumulates in Float32Array; the weights used here   *)
(* are small integers, for which Float32 arithmetic is exact.              *)
(***************************************************************************)
EXTENDS Integers, Sequences, FiniteSets, TLC

\* ------------------------------------------------------------------ bounds
MaxStacks == 3
MaxSamples == 3
MaxWeightedSamples == 2
NumFuncs == 3
MaxTransforms == 1

\* Values of a weight column (diff profiles carry negative weights).
Weights == {-12, 12}

\* ---------------------------------------------------------------- helpers
NoPrefix == 0
NullStack == 0
\* A selector that has not been computed since the last change of its inputs.
NotComputed == [computed |-> FALSE]

Abs(x) == IF x < 0 THEN -x ELSE x

RECURSIVE SumSeq(_)
SumSeq(s) == IF s = <<>> THEN 0 ELSE Head(s) + SumSeq(Tail(s))

RECURSIVE Zeros(_)
Zeros(n) == IF n = 0 THEN <<>> ELSE Append(Zeros(n - 1), 0)

\* ------------------------------------------------------------ input tables
\* Stack tables: prefix < own index for every row (the topological order every
\* profile has); funcs are numbered in order of first appearance.
RECURSIVE MaxOf(_)
MaxOf(s) == IF s = <<>> THEN 0
            ELSE IF Head(s) > MaxOf(Tail(s)) THEN Head(s) ELSE MaxOf(Tail(s))

StackTables ==
  UNION { { [prefix |-> p, func |-> f] :
              p \in { q \in [1..n -> 0..MaxStacks] : \A i \in 1..n : q[i] < i },
              f \in { g \in [1..n -> 1..NumFuncs] :
                        \A i \in 1..n : g[i] <= 1 + MaxOf(SubSeq(g, 1, i - 1)) } } :
          n \in 0..MaxStacks }

\* Samples-like tables over a stack table of s rows: the weight column is
\* optional, a stack reference may be null.  The profiles shown as flame graphs
\* are not time relative: every sample has time 0.
SamplesTables(s) ==
  UNION { { [stack |-> st, hasWeight |-> FALSE, weight |-> <<>>,
             time |-> [i \in 1..n |-> 0]] :
              st \in [1..n -> 0..s] } : n \in 0..MaxSamples }
  \cup
  UNION { { [stack |-> st, hasWeight |-> TRUE, weight |-> w,
             time |-> [i \in 1..n |-> 0]] :
              st \in [1..n -> 0..s], w \in [1..n -> Weights] } :
          n \in 1..MaxWeightedSamples }

Threads ==
  UNION { { [stackTable |-> t, samples |-> s] : s \in SamplesTables(Len(t.prefix)) } :
          t \in StackTables }

\* ------------------------------------------------------- call-node builder
\* getCallNodeInfo: one call node per distinct (parent call node, func) pair,
\* appended in the order the stacks are met.
FindCallNode(callNodeTable, parent, func) ==
  { c \in 1..Len(callNodeTable.prefix) :
      callNodeTable.prefix[c] = parent /\ callNodeTable.func[c] = func }

RECURSIVE CallNodeInfoLoop(_, _, _)
CallNodeInfoLoop(stackTable, stackIndex, info) ==
  IF stackIndex > Len(stackTable.prefix) THEN info
  ELSE
    LET prefixStack == stackTable.prefix[stackIndex]
        func == stackTable.func[stackIndex]
        parent == IF prefixStack = NullStack THEN NoPrefix
                  ELSE info.stackIndexToCallNodeIndex[prefixStack]
        found == FindCallNode(info.callNodeTable, parent, func)
        table == info.callNodeTable
    IN IF found # {}
       THEN CallNodeInfoLoop(stackTable, stackIndex + 1,
              [info EXCEPT !.stackIndexToCallNodeIndex =
                             Append(@, CHOOSE c \in found : TRUE)])
       ELSE CallNodeInfoLoop(stackTable, stackIndex + 1,
              [callNodeTable |->
                 [prefix |-> Append(table.prefix, parent),
                  func |-> Append(table.func, func),
                  depth |-> Append(table.depth,
                              IF parent = NoPrefix THEN 0 ELSE table.depth[parent] + 1)],
               stackIndexToCallNodeIndex |->
                 Append(info.stackIndexToCallNodeIndex, Len(table.prefix) + 1)])

getCallNodeInfo(stackTable) ==
  CallNodeInfoLoop(stackTable, 1,
    [callNodeTable |-> [prefix |-> <<>>, func |-> <<>>, depth |-> <<>>],
     stackIndexToCallNodeIndex |-> <<>>])

\* getSampleIndexToCallNodeIndex: null stays null.
getSampleIndexToCallNodeIndex(stacks, stackIndexToCallNodeIndex) ==
  [i \in 1..Len(stacks) |->
     IF stacks[i] = NullStack THEN NullStack ELSE stackIndexToCallNodeIndex[stacks[i]]]

\* ------------------------------------------------------------- aggregator
\* samples.weight ? samples.weight[sampleIndex] : 1
SampleWeight(samples, sampleIndex) ==
  IF samples.hasWeight THEN samples.weight[sampleIndex] ELSE 1

RECURSIVE StackSelfLoop(_, _, _, _)
StackSelfLoop(samples, sampleIndexToCallNodeIndex, sampleIndex, callNodeSelf) ==
  IF sampleIndex > Len(sampleIndexToCallNodeIndex) THEN callNodeSelf
  ELSE
    LET callNodeIndex == sampleIndexToCallNodeIndex[sampleIndex]
    IN StackSelfLoop(samples, sampleIndexToCallNodeIndex, sampleIndex + 1,
         IF callNodeIndex # NullStack
         THEN [callNodeSelf EXCEPT ![callNodeIndex] = @ + SampleWeight(samples, sampleIndex)]
         ELSE callNodeSelf)

\* Mutant: the weight column is ignored, every sample counts 1.
_getStackSelf_unitWeight(samples, callNodeTable, sampleIndexToCallNodeIndex) ==
  LET callNodeSelf == StackSelfLoop([samples EXCEPT !.hasWeight = FALSE],
                                    sampleIndexToCallNodeIndex, 1,
                                    Zeros(Len(callNodeTable.prefix)))
  IN [callNodeSelf |-> callNodeSelf, callNodeLeaf |-> callNodeSelf]

_getStackSelf(samples, callNodeTable, sampleIndexToCallNodeIndex) ==
  LET callNodeSelf == StackSelfLoop(samples, sampleIndexToCallNodeIndex, 1,
                                    Zeros(Len(callNodeTable.prefix)))
  IN [callNodeSelf |-> callNodeSelf, callNodeLeaf |-> callNodeSelf]

\* callNodeToRoot: a root maps to itself, any other node to its prefix's root.
RECURSIVE CallNodeToRootLoop(_, _, _)
CallNodeToRootLoop(callNodeTable, callNodeIndex, callNodeToRoot) ==
  IF callNodeIndex > Len(callNodeTable.prefix) THEN callNodeToRoot
  ELSE
    LET prefixCallNode == callNodeTable.prefix[callNodeIndex]
    IN CallNodeToRootLoop(callNodeTable, callNodeIndex + 1,
         Append(callNodeToRoot,
                IF prefixCallNode = NoPrefix THEN callNodeIndex
                ELSE callNodeToRoot[prefixCallNode]))

RECURSIVE InvertedStackSelfLoop(_, _, _, _, _)
InvertedStackSelfLoop(samples, sampleIndexToCallNodeIndex, callNodeToRoot, sampleIndex, acc) ==
  IF sampleIndex > Len(sampleIndexToCallNodeIndex) THEN acc
  ELSE
    LET callNodeIndex == sampleIndexToCallNodeIndex[sampleIndex]
        weight == SampleWeight(samples, sampleIndex)
    IN InvertedStackSelfLoop(samples, sampleIndexToCallNodeIndex, callNodeToRoot,
         sampleIndex + 1,
         IF callNodeIndex # NullStack
         THEN [callNodeSelf |->
                 [acc.callNodeSelf EXCEPT ![callNodeToRoot[callNodeIndex]] = @ + weight],
               callNodeLeaf |->
                 [acc.callNodeLeaf EXCEPT ![callNodeIndex] = @ + weight]]
         ELSE acc)

\* Mutant: the weight is added to self of the sample's own call node.
_getInvertedStackSelf_selfAtLeaf(samples, callNodeTable, sampleIndexToCallNodeIndex) ==
  LET callNodeSelf == StackSelfLoop(samples, sampleIndexToCallNodeIndex, 1,
                                    Zeros(Len(callNodeTable.prefix)))
  IN [callNodeSelf |-> callNodeSelf, callNodeLeaf |-> callNodeSelf]

_getInvertedStackSelf(samples, callNodeTable, sampleIndexToCallNodeIndex) ==
  InvertedStackSelfLoop(samples, sampleIndexToCallNodeIndex,
    CallNodeToRootLoop(callNodeTable, 1, <<>>), 1,
    [callNodeSelf |-> Zeros(Len(callNodeTable.prefix)),
     callNodeLeaf |-> Zeros(Len(callNodeTable.prefix))])

\* Mutant: the root count starts at 1.
InitialSummary_rootCountOne(n) ==
  [total |-> Zeros(n), childCount |-> Zeros(n), rootTotalSummary |-> 0, rootCount |-> 1]

\* The accumulators of computeCallTreeCountsAndSummary before its loop.
InitialSummary(n) ==
  [total |-> Zeros(n), childCount |-> Zeros(n), rootTotalSummary |-> 0, rootCount |-> 0]

\* Mutant: a node's total is not added to the total of its prefix.
SummaryStep_noParentTotal(callNodeTable, callNodeLeaf, callNodeIndex, acc) ==
  LET total == [acc.total EXCEPT ![callNodeIndex] =
                  acc.total[callNodeIndex] + callNodeLeaf[callNodeIndex]]
      rootTotalSummary == acc.rootTotalSummary + Abs(callNodeLeaf[callNodeIndex])
      hasChildren == acc.childCount[callNodeIndex] # 0
      hasTotalValue == total[callNodeIndex] # 0
      prefixCallNode == callNodeTable.prefix[callNodeIndex]
  IN IF ~hasChildren /\ ~hasTotalValue
     THEN [total |-> total, childCount |-> acc.childCount,
           rootTotalSummary |-> rootTotalSummary, rootCount |-> acc.rootCount]
     ELSE IF prefixCallNode = NoPrefix
     THEN [total |-> total, childCount |-> acc.childCount,
           rootTotalSummary |-> rootTotalSummary, rootCount |-> acc.rootCount + 1]
     ELSE [total |-> total,
           childCount |-> [acc.childCount EXCEPT ![prefixCallNode] =
                             acc.childCount[prefixCallNode] + 1],
           rootTotalSummary |-> rootTotalSummary, rootCount |-> acc.rootCount]

\* One iteration of the loop of computeCallTreeCountsAndSummary.
SummaryStep(callNodeTable, callNodeLeaf, callNodeIndex, acc) ==
  LET total == [acc.total EXCEPT ![callNodeIndex] =
                  acc.total[callNodeIndex] + callNodeLeaf[callNodeIndex]]
      rootTotalSummary == acc.rootTotalSummary + Abs(callNodeLeaf[callNodeIndex])
      hasChildren == acc.childCount[callNodeIndex] # 0
      hasTotalValue == total[callNodeIndex] # 0
      prefixCallNode == callNodeTable.prefix[callNodeIndex]
  IN IF ~hasChildren /\ ~hasTotalValue
     THEN [total |-> total, childCount |-> acc.childCount,
           rootTotalSummary |-> rootTotalSummary, rootCount |-> acc.rootCount]
     ELSE IF prefixCallNode = NoPrefix
     THEN [total |-> total, childCount |-> acc.childCount,
           rootTotalSummary |-> rootTotalSummary, rootCount |-> acc.rootCount + 1]
     ELSE [total |-> [total EXCEPT ![prefixCallNode] =
                        total[prefixCallNode] + total[callNodeIndex]],
           childCount |-> [acc.childCount EXCEPT ![prefixCallNode] =
                             acc.childCount[prefixCallNode] + 1],
           rootTotalSummary |-> rootTotalSummary, rootCount |-> acc.rootCount]

\* The loop runs over the call nodes in reverse (children before parents).
RECURSIVE SummaryLoop(_, _, _, _)
SummaryLoop(callNodeTable, callNodeLeaf, callNodeIndex, acc) ==
  IF callNodeIndex < 1 THEN acc
  ELSE SummaryLoop(callNodeTable, callNodeLeaf, callNodeIndex - 1,
                   SummaryStep(callNodeTable, callNodeLeaf, callNodeIndex, acc))

\* The totals after the loop: index 0 of an un-inverted summary is zeroed when
\* it is less than 10.  (On an empty table the code compares undefined < 10,
\* which is false.)
RootNoiseThreshold == 10

SnapRootTotal(total, invertCallstack) ==
  IF ~invertCallstack /\ Len(total) > 0 /\ total[1] < RootNoiseThreshold
  THEN [total EXCEPT ![1] = 0]
  ELSE total

computeCallTreeCountsAndSummary(samples, callNodeInfo, invertCallstack) ==
  LET callNodeTable == callNodeInfo.callNodeTable
      sampleIndexToCallNodeIndex ==
        getSampleIndexToCallNodeIndex(samples.stack, callNodeInfo.stackIndexToCallNodeIndex)
      selfAndLeaf ==
        IF invertCallstack
        THEN _getInvertedStackSelf(samples, callNodeTable, sampleIndexToCallNodeIndex)
        ELSE _getStackSelf(samples, callNodeTable, sampleIndexToCallNodeIndex)
      n == Len(callNodeTable.prefix)
      acc == SummaryLoop(callNodeTable, selfAndLeaf.callNodeLeaf, n, InitialSummary(n))
  IN [computed |-> TRUE,
      callNodeSummary |-> [self |-> selfAndLeaf.callNodeSelf,
                           total |-> SnapRootTotal(acc.total, invertCallstack)],
      \* the two locals the claims speak of, kept next to the returned fields
      callNodeLeaf |-> selfAndLeaf.callNodeLeaf,
      accumulatedTotal |-> acc.total,
      callNodeChildCount |-> acc.childCount,
      rootTotalSummary |-> acc.rootTotalSummary,
      rootCount |-> acc.rootCount]

\* --------------------------------------------------------------- CallTree
\* Mutant: the comparator without its tie-break on the sign.
childrenCompare_noTieBreak(total, a, b) == Abs(total[b]) - Abs(total[a])

\* The comparator handed to children.sort.
childrenCompare(total, a, b) ==
  IF Abs(total[a]) = Abs(total[b]) /\ total[a] > 0 /\ total[b] < 0 THEN -1
  ELSE IF Abs(total[a]) = Abs(total[b]) /\ total[a] < 0 /\ total[b] > 0 THEN 1
  ELSE Abs(total[b]) - Abs(total[a])

\* Array.prototype.sort is stable: an element goes in front of the first
\* element that the comparator orders after it.
RECURSIVE InsertChild(_, _, _)
InsertChild(total, sorted, x) ==
  IF sorted = <<>> THEN <<x>>
  ELSE IF childrenCompare(total, Head(sorted), x) > 0 THEN <<x>> \o sorted
  ELSE <<Head(sorted)>> \o InsertChild(total, Tail(sorted), x)

RECURSIVE SortChildren(_, _)
SortChildren(total, children) ==
  IF children = <<>> THEN <<>>
  ELSE InsertChild(total, SortChildren(total, SubSeq(children, 1, Len(children) - 1)),
                   children[Len(children)])

\* Mutant: a row is pushed only when its total is non-zero.
IsChildRow_totalOnly(tree, callNodeIndex, childCallNodeIndex) ==
  /\ tree.callNodeTable.prefix[childCallNodeIndex] = callNodeIndex
  /\ tree.callNodeSummary.total[childCallNodeIndex] # 0

\* The condition under which getChildren pushes a row.
IsChildRow(tree, callNodeIndex, childCallNodeIndex) ==
  /\ tree.callNodeTable.prefix[childCallNodeIndex] = callNodeIndex
  /\ \/ tree.callNodeSummary.total[childCallNodeIndex] # 0
     \/ tree.callNodeChildCount[childCallNodeIndex] # 0

RECURSIVE CollectChildren(_, _, _, _, _)
CollectChildren(tree, callNodeIndex, childCallNodeIndex, childCount, children) ==
  IF ~(childCallNodeIndex <= Len(tree.callNodeTable.prefix) /\ Len(children) < childCount)
  THEN children
  ELSE CollectChildren(tree, callNodeIndex, childCallNodeIndex + 1, childCount,
         IF IsChildRow(tree, callNodeIndex, childCallNodeIndex)
         THEN Append(children, childCallNodeIndex)
         ELSE children)

ComputeChildren(tree, callNodeIndex) ==
  LET childCount == IF callNodeIndex = NoPrefix THEN tree.rootCount
                    ELSE tree.callNodeChildCount[callNodeIndex]
  IN SortChildren(tree.callNodeSummary.total,
       CollectChildren(tree, callNodeIndex, callNodeIndex + 1, childCount, <<>>))

\* this._children is a sparse array: an index outside its domain is undefined.
getChildren(tree, callNodeIndex) ==
  IF callNodeIndex \in DOMAIN tree.children THEN tree.children[callNodeIndex]
  ELSE ComputeChildren(tree, callNodeIndex)

getRoots(tree) == getChildren(tree, NoPrefix)

\* new CallTree(...) as built by getCallTree: the children cache starts empty.
getCallTree(thread, callNodeInfo, callTreeCountsAndSummary) ==
  [computed |-> TRUE,
   thread |-> thread,
   callNodeInfo |-> callNodeInfo,
   callNodeTable |-> callNodeInfo.callNodeTable,
   callNodeSummary |-> callTreeCountsAndSummary.callNodeSummary,
   callNodeChildCount |-> callTreeCountsAndSummary.callNodeChildCount,
   rootTotalSummary |-> callTreeCountsAndSummary.rootTotalSummary,
   rootCount |-> callTreeCountsAndSummary.rootCount,
   children |-> [n \in {} |-> <<>>],
   displayDataByIndex |-> [n \in {} |-> <<>>]]

\* -------------------------------------------------- thread filter functions
\* The func table shared by the threads of the model: A is native, B is
\* JavaScript, C is native; frames of A and B belong to page 1, C to none.
FuncNames == <<"A", "B", "C">>
FuncIsJS == <<FALSE, TRUE, FALSE>>
FuncInnerWindowID == <<1, 1, 0>>

\* updateThreadStacks: a new stack table, every sample's stack converted.
updateThreadStacks(thread, newStackTable, newStacks) ==
  [thread EXCEPT !.stackTable = newStackTable, !.samples.stack = newStacks]

\* Interning of (prefix, frame) pairs into a stack table under construction.
StackFor(table, prefix, func) ==
  LET found == { k \in 1..Len(table.prefix) :
                   table.prefix[k] = prefix /\ table.func[k] = func }
  IN IF found # {}
     THEN [table |-> table, stack |-> CHOOSE k \in found : TRUE]
     ELSE [table |-> [prefix |-> Append(table.prefix, prefix),
                      func |-> Append(table.func, func)],
           stack |-> Len(table.prefix) + 1]

\* The funcs of a stack, root first.
RECURSIVE StackPath(_, _)
StackPath(stackTable, stackIndex) ==
  IF stackIndex = NullStack THEN <<>>
  ELSE Append(StackPath(stackTable, stackTable.prefix[stackIndex]),
              stackTable.func[stackIndex])

SeqContains(seq, x) == \E i \in 1..Len(seq) : seq[i] = x

EmptyStackTable == [prefix |-> <<>>, func |-> <<>>]

\* invertCallstack (the profile-data function): walking a stack from its leaf to its root, each frame is
\* interned with the previously interned stack as its prefix.
RECURSIVE InvertStack(_, _, _, _)
InvertStack(stackTable, table, currentStack, newStack) ==
  IF currentStack = NullStack THEN [table |-> table, stack |-> newStack]
  ELSE LET r == StackFor(table, newStack, stackTable.func[currentStack])
       IN InvertStack(stackTable, r.table, stackTable.prefix[currentStack], r.stack)

\* samples.stack.map(convertStack), in sample order.
RECURSIVE InvertSamples(_, _, _, _)
InvertSamples(stackTable, stacks, i, acc) ==
  IF i > Len(stacks) THEN acc
  ELSE LET r == InvertStack(stackTable, acc.table, stacks[i], NullStack)
       IN InvertSamples(stackTable, stacks, i + 1,
            [table |-> r.table, stacks |-> Append(acc.stacks, r.stack)])

invertCallstack_(thread) ==
  LET r == InvertSamples(thread.stackTable, thread.samples.stack, 1,
                         [table |-> EmptyStackTable, stacks |-> <<>>])
  IN updateThreadStacks(thread, r.table, r.stacks)

\* _filterThreadByFunc: frames whose func fails the filter are cut out of
\* every stack.
RECURSIVE FilterStack(_, _, _, _)
FilterStack(stackTable, keep, table, stackIndex) ==
  IF stackIndex = NullStack THEN [table |-> table, stack |-> NullStack]
  ELSE LET p == FilterStack(stackTable, keep, table, stackTable.prefix[stackIndex])
       IN IF keep[stackTable.func[stackIndex]]
          THEN StackFor(p.table, p.stack, stackTable.func[stackIndex])
          ELSE p

RECURSIVE FilterSamples(_, _, _, _, _)
FilterSamples(stackTable, keep, stacks, i, acc) ==
  IF i > Len(stacks) THEN acc
  ELSE LET r == FilterStack(stackTable, keep, acc.table, stacks[i])
       IN FilterSamples(stackTable, keep, stacks, i + 1,
            [table |-> r.table, stacks |-> Append(acc.stacks, r.stack)])

filterThreadByFunc(thread, keep) ==
  LET r == FilterSamples(thread.stackTable, keep, thread.samples.stack, 1,
                         [table |-> EmptyStackTable, stacks |-> <<>>])
  IN updateThreadStacks(thread, r.table, r.stacks)

filterThreadByImplementation(thread, implementationFilter) ==
  CASE implementationFilter = "js" ->
         filterThreadByFunc(thread, FuncIsJS)
    [] implementationFilter = "cpp" ->
         filterThreadByFunc(thread, [f \in 1..Len(FuncIsJS) |-> ~FuncIsJS[f]])
    [] OTHER -> thread

\* filterThreadSamplesToRange: the samples with start <= time < end.
RECURSIVE SelectByMask(_, _)
SelectByMask(seq, mask) ==
  IF seq = <<>> THEN <<>>
  ELSE LET rest == SelectByMask(SubSeq(seq, 1, Len(seq) - 1), mask)
       IN IF mask[Len(seq)] THEN Append(rest, seq[Len(seq)]) ELSE rest

filterThreadSamplesToRange(thread, rangeStart, rangeEnd) ==
  LET inRange == [i \in 1..Len(thread.samples.time) |->
                    rangeStart <= thread.samples.time[i] /\ thread.samples.time[i] < rangeEnd]
  IN [thread EXCEPT
        !.samples.stack = SelectByMask(@, inRange),
        !.samples.time = SelectByMask(@, inRange),
        !.samples.weight = IF thread.samples.hasWeight THEN SelectByMask(@, inRange) ELSE @]

\* filterThreadByTab: a sample keeps its stack when the page of its leaf frame
\* is relevant.
filterThreadByTab(thread, relevantPages) ==
  updateThreadStacks(thread, thread.stackTable,
    [i \in 1..Len(thread.samples.stack) |->
       LET stack == thread.samples.stack[i]
       IN IF stack # NullStack
             /\ FuncInnerWindowID[thread.stackTable.func[stack]] \in relevantPages
          THEN stack ELSE NullStack])

\* filterThreadToSearchStrings: a sample keeps its stack when some func of the
\* stack matches every search string.
filterThreadToSearchStrings(thread, searchStrings) ==
  IF searchStrings = <<>> THEN thread
  ELSE updateThreadStacks(thread, thread.stackTable,
    [i \in 1..Len(thread.samples.stack) |->
       LET stack == thread.samples.stack[i]
           path == StackPath(thread.stackTable, stack)
       IN IF \A k \in 1..Len(searchStrings) :
               \E d \in 1..Len(path) : FuncNames[path[d]] = searchStrings[k]
          THEN stack ELSE NullStack])

\* drop-function: every stack whose path contains the func becomes null.
dropFunction(thread, funcIndexToDrop) ==
  updateThreadStacks(thread, thread.stackTable,
    [i \in 1..Len(thread.samples.stack) |->
       LET stack == thread.samples.stack[i]
       IN IF SeqContains(StackPath(thread.stackTable, stack), funcIndexToDrop)
          THEN NullStack ELSE stack])

applyTransform(thread, transform) ==
  CASE transform.type = "drop-function" -> dropFunction(thread, transform.funcIndex)
    [] OTHER -> thread

RECURSIVE applyTransformStack(_, _)
applyTransformStack(thread, transformStack) ==
  IF transformStack = <<>> THEN thread
  ELSE applyTransform(
         applyTransformStack(thread, SubSeq(transformStack, 1, Len(transformStack) - 1)),
         transformStack[Len(transformStack)])

\* ------------------------------------------------------------------ state
VARIABLES
  thread,                   \* the thread of the loaded profile
  relevantPages,            \* inner window ids relevant for the current tab
  committedRange,           \* url state: the committed range
  transforms,               \* url state: the thread's transform stack
  implementation,           \* url state: implementation filter
  searchStrings,            \* url state: call tree search strings
  invertCallstack,          \* url state: invert flag
  callTreeCountsAndSummary, \* memoized result of getCallTreeCountsAndSummary
  callTree                  \* memoized result of getCallTree

VARIABLES
  transformString,          \* the transforms parameter of the URL
  parsedTransforms,         \* result of parseTransforms(transformString)
  stringifiedTransforms     \* result of stringifyTransforms(parsedTransforms)

VARIABLES
  oldFuncToNewFuncsMap,     \* the FuncToFuncsMap of a symbolication step
  pathSet,                  \* the PathSet of expanded call nodes
  newCallPath,              \* result of applyFuncSubstitutionToCallPath
  newPathSet                \* result of applyFuncSubstitutionToPathSetAndIncludeNewAncestors

VARIABLES
  selectedCallTree,         \* the call tree of the selected thread
  compareCallTree,          \* the call tree of the thread compared with
  callNodeIndexToCompareCallNodeIndexTable, \* memoized result of the selector
  renderedRow               \* the compare data of the row rendered last

VARIABLES
  threadTables,             \* which sample-like tables the thread has
  lastSelectedCallTreeSummaryStrategy, \* url state
  callTreeSummaryStrategy,  \* memoized result of getCallTreeSummaryStrategy
  unfilteredSamplesForCallTree \* outcome of getUnfilteredSamplesForCallTree

VARIABLES
  lastCall                  \* the last query made on the CallTree, with its result

VARIABLES
  selectedNodeId,           \* TreeView props: the selected row, 0 for null
  expandedNodeIds,          \* TreeView props: the expanded rows
  lastKeyDown               \* the last key event handled, with the props it met

VARIABLES
  committedTransformStack,  \* url state: the transform stack to serialize
  urlTransforms,            \* stringifyTransforms(transformStack), the URL parameter
  restoredTransformStack    \* parseTransforms(urlTransforms)

VARIABLES
  threadSelectorsCache,     \* _threadSelectorsCache: the thread indexes it has a key for
  mergedThreadSelectorsCache, \* cache of _mergedThreadSelectorsMemoized, oldest use first
  selectorRequests,         \* the keys of the last calls of getThreadSelectors, oldest first
  selectorsBuilt            \* whether the last call built a new selectors object

VARIABLES
  appState,                 \* the app slice of the store: view phase, panelLayoutGeneration
  prePublishedState,        \* a state of the store retained for a later revert
  retrievals                \* the runs of retrieveProfile: position, parse outcome, phases met

callTreeVars == <<thread, relevantPages, committedRange, transforms, implementation,
                  searchStrings, invertCallstack, callTreeCountsAndSummary, callTree>>
urlVars == <<transformString, parsedTransforms, stringifiedTransforms>>

substitutionVars == <<oldFuncToNewFuncsMap, pathSet, newCallPath, newPathSet>>

compareVars == <<selectedCallTree, compareCallTree,
                 callNodeIndexToCompareCallNodeIndexTable, renderedRow>>

strategyVars == <<threadTables, lastSelectedCallTreeSummaryStrategy,
                  callTreeSummaryStrategy, unfilteredSamplesForCallTree>>

queriesVars == <<lastCall>>

treeViewVars == <<selectedNodeId, expandedNodeIds, lastKeyDown>>

urlStackVars == <<committedTransformStack, urlTransforms, restoredTransformStack>>

selectorsVars == <<threadSelectorsCache, mergedThreadSelectorsCache, selectorRequests,
                   selectorsBuilt>>

storeVars == <<appState, prePublishedState, retrievals>>

vars == <<callTreeVars, urlVars, substitutionVars, compareVars, strategyVars, queriesVars, treeViewVars, urlStackVars, selectorsVars, storeVars>>

\* The variables of the components that take no part in a specification keep
\* their value.
CallTreeIdle ==
  /\ thread = [stackTable |-> [prefix |-> <<>>, func |-> <<>>],
               samples |-> [stack |-> <<>>, hasWeight |-> FALSE, weight |-> <<>>,
                            time |-> <<>>]]
  /\ relevantPages = {}
  /\ committedRange = [start |-> 0, end |-> 1]
  /\ transforms = <<>>
  /\ implementation = "combined"
  /\ searchStrings = <<>>
  /\ invertCallstack = FALSE
  /\ callTreeCountsAndSummary = NotComputed
  /\ callTree = NotComputed

UrlIdle ==
  /\ transformString = <<>>
  /\ parsedTransforms = NotComputed
  /\ stringifiedTransforms = NotComputed

SubstitutionIdle ==
  /\ oldFuncToNewFuncsMap = <<>>
  /\ pathSet = {}
  /\ newCallPath = NotComputed
  /\ newPathSet = NotComputed

CompareIdle ==
  /\ selectedCallTree = NotComputed
  /\ compareCallTree = NotComputed
  /\ callNodeIndexToCompareCallNodeIndexTable = NotComputed
  /\ renderedRow = NotComputed

StrategyIdle ==
  /\ threadTables = NotComputed
  /\ lastSelectedCallTreeSummaryStrategy = "timing"
  /\ callTreeSummaryStrategy = NotComputed
  /\ unfilteredSamplesForCallTree = NotComputed

QueriesIdle == lastCall = NotComputed

TreeViewIdle ==
  /\ selectedNodeId = 0
  /\ expandedNodeIds = {}
  /\ lastKeyDown = NotComputed

UrlStackIdle ==
  /\ committedTransformStack = <<>>
  /\ urlTransforms = NotComputed
  /\ restoredTransformStack = NotComputed

SelectorsIdle ==
  /\ threadSelectorsCache = {}
  /\ mergedThreadSelectorsCache = <<>>
  /\ selectorRequests = <<>>
  /\ selectorsBuilt = FALSE

StoreIdle ==
  /\ appState = [view |-> "INITIALIZING", panelLayoutGeneration |-> 0]
  /\ prePublishedState = NotComputed
  /\ retrievals = <<>>

OthersThanCallTreeIdle == UrlIdle /\ SubstitutionIdle /\ CompareIdle /\ StrategyIdle /\ QueriesIdle /\ TreeViewIdle /\ UrlStackIdle /\ SelectorsIdle /\ StoreIdle
OthersThanUrlIdle == CallTreeIdle /\ SubstitutionIdle /\ CompareIdle /\ StrategyIdle /\ QueriesIdle /\ TreeViewIdle /\ UrlStackIdle /\ SelectorsIdle /\ StoreIdle
OthersThanSubstitutionIdle == CallTreeIdle /\ UrlIdle /\ CompareIdle /\ StrategyIdle /\ QueriesIdle /\ TreeViewIdle /\ UrlStackIdle /\ SelectorsIdle /\ StoreIdle
OthersThanCompareIdle == CallTreeIdle /\ UrlIdle /\ SubstitutionIdle /\ StrategyIdle /\ QueriesIdle /\ TreeViewIdle /\ UrlStackIdle /\ SelectorsIdle /\ StoreIdle
OthersThanStrategyIdle == CallTreeIdle /\ UrlIdle /\ SubstitutionIdle /\ CompareIdle /\ QueriesIdle /\ TreeViewIdle /\ UrlStackIdle /\ SelectorsIdle /\ StoreIdle
OthersThanQueriesIdle == CallTreeIdle /\ UrlIdle /\ SubstitutionIdle /\ CompareIdle /\ StrategyIdle /\ TreeViewIdle /\ UrlStackIdle /\ SelectorsIdle /\ StoreIdle
OthersThanTreeViewIdle == CallTreeIdle /\ UrlIdle /\ SubstitutionIdle /\ CompareIdle /\ StrategyIdle /\ QueriesIdle /\ UrlStackIdle /\ SelectorsIdle /\ StoreIdle
OthersThanUrlStackIdle == CallTreeIdle /\ UrlIdle /\ SubstitutionIdle /\ CompareIdle /\ StrategyIdle /\ QueriesIdle /\ TreeViewIdle /\ SelectorsIdle /\ StoreIdle
OthersThanSelectorsIdle == CallTreeIdle /\ UrlIdle /\ SubstitutionIdle /\ CompareIdle /\ StrategyIdle /\ QueriesIdle /\ TreeViewIdle /\ UrlStackIdle /\ StoreIdle
OthersThanStoreIdle == CallTreeIdle /\ UrlIdle /\ SubstitutionIdle /\ CompareIdle /\ StrategyIdle /\ QueriesIdle /\ TreeViewIdle /\ UrlStackIdle /\ SelectorsIdle
othersThanCallTree == <<urlVars, substitutionVars, compareVars, strategyVars, queriesVars, treeViewVars, urlStackVars, selectorsVars, storeVars>>
othersThanUrl == <<callTreeVars, substitutionVars, compareVars, strategyVars, queriesVars, treeViewVars, urlStackVars, selectorsVars, storeVars>>
othersThanSubstitution == <<callTreeVars, urlVars, compareVars, strategyVars, queriesVars, treeViewVars, urlStackVars, selectorsVars, storeVars>>
othersThanCompare == <<callTreeVars, urlVars, substitutionVars, strategyVars, queriesVars, treeViewVars, urlStackVars, selectorsVars, storeVars>>
othersThanStrategy == <<callTreeVars, urlVars, substitutionVars, compareVars, queriesVars, treeViewVars, urlStackVars, selectorsVars, storeVars>>
othersThanQueries == <<callTreeVars, urlVars, substitutionVars, compareVars, strategyVars, treeViewVars, urlStackVars, selectorsVars, storeVars>>
othersThanTreeView == <<callTreeVars, urlVars, substitutionVars, compareVars, strategyVars, queriesVars, urlStackVars, selectorsVars, storeVars>>
othersThanUrlStack == <<callTreeVars, urlVars, substitutionVars, compareVars, strategyVars, queriesVars, treeViewVars, selectorsVars, storeVars>>
othersThanSelectors == <<callTreeVars, urlVars, substitutionVars, compareVars, strategyVars, queriesVars, treeViewVars, urlStackVars, storeVars>>
othersThanStore == <<callTreeVars, urlVars, substitutionVars, compareVars, strategyVars, queriesVars, treeViewVars, urlStackVars, selectorsVars>>
OthersThanCallTreeQueriesIdle == UrlIdle /\ SubstitutionIdle /\ CompareIdle /\ StrategyIdle /\ TreeViewIdle /\ UrlStackIdle /\ SelectorsIdle /\ StoreIdle
othersThanCallTreeQueries == <<urlVars, substitutionVars, compareVars, strategyVars, treeViewVars, urlStackVars, selectorsVars, storeVars>>
OthersThanCallTreeTreeViewIdle == UrlIdle /\ SubstitutionIdle /\ CompareIdle /\ StrategyIdle /\ QueriesIdle /\ UrlStackIdle /\ SelectorsIdle /\ StoreIdle
othersThanCallTreeTreeView == <<urlVars, substitutionVars, compareVars, strategyVars, queriesVars, urlStackVars, selectorsVars, storeVars>>

\* ------------------------------------------------ per-thread selectors
getCPUProcessedThread == thread   \* no thread of the model has threadCPUDelta

getTabFilteredThread ==
  IF Cardinality(relevantPages) = 0 THEN getCPUProcessedThread
  ELSE filterThreadByTab(getCPUProcessedThread, relevantPages)

getRangeFilteredThread ==
  filterThreadSamplesToRange(getTabFilteredThread, committedRange.start, committedRange.end)

_getImplementationFilteredThread ==
  filterThreadByImplementation(getRangeFilteredThread, implementation)

_getImplementationAndSearchFilteredThread ==
  filterThreadToSearchStrings(_getImplementationFilteredThread, searchStrings)

getFilteredThread ==
  IF invertCallstack THEN invertCallstack_(_getImplementationAndSearchFilteredThread)
  ELSE _getImplementationAndSearchFilteredThread

getPreviewFilteredThread == filterThreadSamplesToRange(getFilteredThread, 0, 1)

\* extractSamplesLikeTable for the timing strategy.
getPreviewFilteredSamplesForCallTree == getPreviewFilteredThread.samples

getCallNodeInfoOfFilteredThread == getCallNodeInfo(getFilteredThread.stackTable)

getCallTreeCountsAndSummary ==
  computeCallTreeCountsAndSummary(getPreviewFilteredSamplesForCallTree,
                                  getCallNodeInfoOfFilteredThread, invertCallstack)

\* ---------------------------------------------------------------- actions
\* The committed range of a freshly loaded profile: from time 0 to one interval
\* after its last sample.
RootRange(t) ==
  [start |-> 0,
   end |-> IF t.samples.time = <<>> THEN 1
           ELSE t.samples.time[Len(t.samples.time)] + 1]

InitSettings ==
  /\ committedRange = RootRange(thread)
  /\ transforms = <<>>
  /\ implementation = "combined"
  /\ searchStrings = <<>>
  /\ invertCallstack = FALSE
  /\ callTreeCountsAndSummary = NotComputed
  /\ callTree = NotComputed

Init ==
  /\ thread \in Threads
  /\ relevantPages = {}
  /\ InitSettings
  /\ OthersThanCallTreeIdle

\* The getCallTree selector, with the selectors it reads.
GetCallTree ==
  /\ ~callTree.computed
  /\ callTreeCountsAndSummary' = getCallTreeCountsAndSummary
  /\ callTree' = getCallTree(getPreviewFilteredThread, getCallNodeInfoOfFilteredThread,
                             getCallTreeCountsAndSummary)
  /\ UNCHANGED <<thread, relevantPages, committedRange, transforms, implementation,
                 searchStrings, invertCallstack,
                 othersThanCallTree>>

\* CallTree.render: tree.getRoots() fills the children cache of the root level.
Render ==
  /\ callTree.computed
  /\ NoPrefix \notin DOMAIN callTree.children
  /\ callTree' = [callTree EXCEPT !.children =
                    [n \in DOMAIN callTree.children \cup {NoPrefix} |->
                       IF n = NoPrefix THEN getRoots(callTree) ELSE callTree.children[n]]]
  /\ UNCHANGED <<thread, relevantPages, committedRange, transforms, implementation,
                 searchStrings, invertCallstack, callTreeCountsAndSummary,
                 othersThanCallTree>>

\* A change of the url state invalidates the memoized selectors.
Invalidate ==
  /\ callTreeCountsAndSummary' = NotComputed
  /\ callTree' = NotComputed

ChangeInvertCallstack ==
  /\ invertCallstack' = ~invertCallstack
  /\ Invalidate
  /\ UNCHANGED <<thread, relevantPages, committedRange, transforms, implementation,
                 searchStrings,
                 othersThanCallTree>>

Next == GetCallTree \/ Render \/ ChangeInvertCallstack

Spec == Init /\ [][Next]_vars

\* ------------------------------------------- the url state of the pipeline
\* Threads whose samples are one interval apart, all with the stack table
\* A -> B -> C, each sample in B or in C.
PipelineThreads ==
  { [stackTable |-> [prefix |-> <<0, 1, 2>>, func |-> <<1, 2, 3>>],
     samples |-> [stack |-> st, hasWeight |-> FALSE, weight |-> <<>>,
                  time |-> [i \in 1..MaxSamples |-> i - 1]]] :
      st \in [1..MaxSamples -> 2..3] }

ImplementationFilters == {"combined", "js", "cpp"}
SearchStringChoices == {<<>>, <<"B">>, <<"C">>}
Transforms == { [type |-> "drop-function", funcIndex |-> f] : f \in 1..NumFuncs }

InitPipeline ==
  /\ thread \in PipelineThreads
  /\ relevantPages \in {{}, {1}}
  /\ InitSettings
  /\ OthersThanCallTreeIdle

ChangeImplementationFilter ==
  \E impl \in ImplementationFilters \ {implementation} :
    /\ implementation' = impl
    /\ Invalidate
    /\ UNCHANGED <<thread, relevantPages, committedRange, transforms, searchStrings,
                   invertCallstack,
                 othersThanCallTree>>

ChangeCallTreeSearchString ==
  \E strings \in SearchStringChoices \ {searchStrings} :
    /\ searchStrings' = strings
    /\ Invalidate
    /\ UNCHANGED <<thread, relevantPages, committedRange, transforms, implementation,
                   invertCallstack,
                 othersThanCallTree>>

\* COMMIT_RANGE narrows the committed range, POP_COMMITTED_RANGES (to the
\* first range) restores the root range.
CommitRange ==
  \E start \in committedRange.start..(committedRange.end - 1) :
    /\ start > committedRange.start
    /\ committedRange' = [start |-> start, end |-> committedRange.end]
    /\ Invalidate
    /\ UNCHANGED <<thread, relevantPages, transforms, implementation, searchStrings,
                   invertCallstack,
                 othersThanCallTree>>

PopCommittedRanges ==
  /\ committedRange # RootRange(thread)
  /\ committedRange' = RootRange(thread)
  /\ Invalidate
  /\ UNCHANGED <<thread, relevantPages, transforms, implementation, searchStrings,
                 invertCallstack,
                 othersThanCallTree>>

AddTransformToStack ==
  \E transform \in Transforms :
    /\ Len(transforms) < MaxTransforms
    /\ transforms' = Append(transforms, transform)
    /\ Invalidate
    /\ UNCHANGED <<thread, relevantPages, committedRange, implementation, searchStrings,
                   invertCallstack,
                 othersThanCallTree>>

PopTransformsFromStack ==
  \E firstPoppedFilterIndex \in 0..(Len(transforms) - 1) :
    /\ transforms' = SubSeq(transforms, 1, firstPoppedFilterIndex)
    /\ Invalidate
    /\ UNCHANGED <<thread, relevantPages, committedRange, implementation, searchStrings,
                   invertCallstack,
                 othersThanCallTree>>

NextPipeline ==
  \/ GetCallTree \/ Render \/ ChangeInvertCallstack
  \/ ChangeImplementationFilter \/ ChangeCallTreeSearchString
  \/ CommitRange \/ PopCommittedRanges
  \/ AddTransformToStack \/ PopTransformsFromStack

SpecPipeline == InitPipeline /\ [][NextPipeline]_vars

\* ===================================================== transform URL encoding
\* A string is the sequence of its characters.  The strings of the model hold
\* no whitespace.
Undefined == <<"undefined">>   \* a missing element of a destructured array
Null == "null"

DigitChars == <<"0", "1", "2", "3", "4", "5", "6", "7", "8", "9">>
IsDigit(c) == \E d \in DOMAIN DigitChars : DigitChars[d] = c
DigitValue(c) == (CHOOSE d \in DOMAIN DigitChars : DigitChars[d] = c) - 1

\* String.prototype.split with a one-character separator.
RECURSIVE SplitLoop(_, _, _, _)
SplitLoop(s, separator, i, pieces) ==
  IF i > Len(s) THEN pieces
  ELSE IF s[i] = separator
       THEN SplitLoop(s, separator, i + 1, Append(pieces, <<>>))
       ELSE SplitLoop(s, separator, i + 1,
                      [pieces EXCEPT ![Len(pieces)] = Append(@, s[i])])

Split(s, separator) == SplitLoop(s, separator, 1, << <<>> >>)

\* Array.prototype.join with a one-character separator.
RECURSIVE Join(_, _)
Join(pieces, separator) ==
  IF pieces = <<>> THEN <<>>
  ELSE IF Len(pieces) = 1 THEN pieces[1]
  ELSE pieces[1] \o <<separator>> \o Join(Tail(pieces), separator)

\* parseInt(s, 10): an optional sign, then the longest run of digits; NaN when
\* there is no digit.
NaN == [isNaN |-> TRUE, value |-> 0]

RECURSIVE ParseDigits(_, _, _)
ParseDigits(s, i, value) ==
  IF i > Len(s) \/ ~IsDigit(s[i]) THEN value
  ELSE ParseDigits(s, i + 1, value * 10 + DigitValue(s[i]))

parseInt_zeroForNaN(s) ==
  LET signed == s # <<>> /\ s[1] \in {"+", "-"}
      start == IF signed THEN 2 ELSE 1
  IN [isNaN |-> FALSE,
      value |-> IF start > Len(s) \/ ~IsDigit(s[start]) THEN 0
                ELSE (IF signed /\ s[1] = "-" THEN -1 ELSE 1) * ParseDigits(s, start, 0)]

parseInt(s) ==
  LET signed == s # <<>> /\ s[1] \in {"+", "-"}
      start == IF signed THEN 2 ELSE 1
  IN IF start > Len(s) \/ ~IsDigit(s[start]) THEN NaN
     ELSE [isNaN |-> FALSE,
           value |-> (IF signed /\ s[1] = "-" THEN -1 ELSE 1) * ParseDigits(s, start, 0)]

\* The string of a number in a template literal.
RECURSIVE NatToString(_)
NatToString(n) ==
  IF n < 10 THEN <<DigitChars[n + 1]>>
  ELSE NatToString(n \div 10) \o <<DigitChars[(n % 10) + 1]>>

NumberToString(n) == IF n < 0 THEN <<"-">> \o NatToString(-n) ELSE NatToString(n)

\* Boolean(x) of a string or undefined.
ToBoolean(s) == s # Undefined /\ s # <<>>

\* The ten transform types in the order of the table of short keys.
TransformTypes ==
  <<"focus-subtree", "focus-function", "focus-category", "merge-call-node",
    "merge-function", "drop-function", "collapse-resource",
    "collapse-direct-recursion", "collapse-indirect-recursion",
    "collapse-function-subtree">>

ShortKeyOf(transform) ==
  CASE transform = "focus-subtree" -> <<"f">>
    [] transform = "focus-function" -> <<"f", "f">>
    [] transform = "focus-category" -> <<"f", "g">>
    [] transform = "merge-call-node" -> <<"m", "c", "n">>
    [] transform = "merge-function" -> <<"m", "f">>
    [] transform = "drop-function" -> <<"d", "f">>
    [] transform = "collapse-resource" -> <<"c", "r">>
    [] transform = "collapse-direct-recursion" -> <<"r", "e", "c">>
    [] transform = "collapse-indirect-recursion" -> <<"i", "r", "e", "c">>
    [] transform = "collapse-function-subtree" -> <<"c", "f", "s">>

TRANSFORM_TO_SHORT_KEY ==
  [transform \in { TransformTypes[i] : i \in DOMAIN TransformTypes } |->
     ShortKeyOf(transform)]

SHORT_KEY_TO_TRANSFORM ==
  [shortKey \in { TRANSFORM_TO_SHORT_KEY[t] : t \in DOMAIN TRANSFORM_TO_SHORT_KEY } |->
     CHOOSE t \in DOMAIN TRANSFORM_TO_SHORT_KEY : TRANSFORM_TO_SHORT_KEY[t] = shortKey]

\* utils/flow: the value when it is a transform type, null otherwise.
convertToTransformType(type) ==
  IF type \in DOMAIN TRANSFORM_TO_SHORT_KEY THEN type ELSE Null

\* profile-data: an unknown implementation tag becomes "combined".
ImplementationJs == <<"j", "s">>
ImplementationCpp == <<"c", "p", "p">>
ImplementationCombined == <<"c", "o", "m", "b", "i", "n", "e", "d">>

\* Mutant: every tag becomes "combined".
toValidImplementationFilter_alwaysCombined(implementationRaw) == ImplementationCombined

toValidImplementationFilter(implementationRaw) ==
  IF implementationRaw \in {ImplementationJs, ImplementationCpp, ImplementationCombined}
  THEN implementationRaw ELSE ImplementationCombined

\* utils/uintarray-encoding: every number is written in base 32, its last
\* character taken from the second half of the alphabet.
EncodingChars ==
  <<"0", "1", "2", "3", "4", "5", "6", "7", "8", "9", "a", "b", "c", "d", "e", "f",
    "g", "h", "i", "j", "k", "l", "m", "n", "o", "p", "q", "r", "s", "t", "u", "v",
    "w", "x", "y", "z", "A", "B", "C", "D", "E", "F", "G", "H", "I", "J", "K", "L",
    "M", "N", "O", "P", "Q", "R", "S", "T", "U", "V", "W", "X", "Y", "Z", ".", "_">>

EncodingRadix == Len(EncodingChars) \div 2

SextetOf(c) == (CHOOSE i \in DOMAIN EncodingChars : EncodingChars[i] = c) - 1

RECURSIVE EncodeUintPrefix(_)
EncodeUintPrefix(value) ==
  IF value = 0 THEN <<>>
  ELSE EncodeUintPrefix(value \div EncodingRadix)
         \o <<EncodingChars[(value % EncodingRadix) + 1]>>

EncodeUint(value) ==
  EncodeUintPrefix(value \div EncodingRadix)
    \o <<EncodingChars[EncodingRadix + (value % EncodingRadix) + 1]>>

RECURSIVE encodeUintArrayForUrlComponent(_)
encodeUintArrayForUrlComponent(array) ==
  IF array = <<>> THEN <<>>
  ELSE EncodeUint(array[1]) \o encodeUintArrayForUrlComponent(Tail(array))

RECURSIVE DecodeUintLoop(_, _, _, _)
DecodeUintLoop(s, i, value, array) ==
  IF i > Len(s) THEN array
  ELSE LET sextet == SextetOf(s[i])
       IN IF sextet >= EncodingRadix
          THEN DecodeUintLoop(s, i + 1, 0,
                 Append(array, value * EncodingRadix + (sextet - EncodingRadix)))
          ELSE DecodeUintLoop(s, i + 1, value * EncodingRadix + sextet, array)

decodeUintArrayFromUrlComponent(s) == DecodeUintLoop(s, 1, 0, <<>>)

\* tuple[i] of a destructuring assignment (i counted from 0 in the code).
TupleAt(tuple, i) == IF i <= Len(tuple) THEN tuple[i] ELSE Undefined

\* The body of the forEach of parseTransforms: the transforms pushed for one
\* "~"-separated piece of the string.
ParseTransform(s) ==
  LET tuple == Split(s, "-")
      shortKey == tuple[1]
      type == convertToTransformType(
                IF shortKey \in DOMAIN SHORT_KEY_TO_TRANSFORM
                THEN SHORT_KEY_TO_TRANSFORM[shortKey] ELSE "undefined")
  IN IF type = Null THEN <<>>
     ELSE CASE type = "collapse-resource" ->
            LET resourceIndex == parseInt(TupleAt(tuple, 3))
                collapsedFuncIndex == parseInt(TupleAt(tuple, 4))
            IN IF resourceIndex.isNaN \/ collapsedFuncIndex.isNaN THEN <<>>
               ELSE IF resourceIndex.value >= 0
               THEN << [type |-> type,
                        resourceIndex |-> resourceIndex.value,
                        collapsedFuncIndex |-> collapsedFuncIndex.value,
                        implementation |-> toValidImplementationFilter(TupleAt(tuple, 2))] >>
               ELSE <<>>
       [] type \in {"collapse-direct-recursion", "collapse-indirect-recursion"} ->
            LET funcIndex == parseInt(TupleAt(tuple, 3))
            IN IF funcIndex.isNaN \/ funcIndex.value < 0 THEN <<>>
               ELSE << [type |-> type,
                        funcIndex |-> funcIndex.value,
                        implementation |-> toValidImplementationFilter(TupleAt(tuple, 2))] >>
       [] type \in {"merge-function", "focus-function", "drop-function",
                    "collapse-function-subtree"} ->
            LET funcIndex == parseInt(TupleAt(tuple, 2))
            IN IF ~funcIndex.isNaN /\ funcIndex.value >= 0
               THEN << [type |-> type, funcIndex |-> funcIndex.value] >>
               ELSE <<>>
       [] type = "focus-category" ->
            LET category == parseInt(TupleAt(tuple, 2))
            IN IF ~category.isNaN /\ category.value >= 0
               THEN << [type |-> type, category |-> category.value] >>
               ELSE <<>>
       [] type = "focus-subtree" ->
            << [type |-> type,
                implementation |-> toValidImplementationFilter(TupleAt(tuple, 2)),
                callNodePath |-> decodeUintArrayFromUrlComponent(TupleAt(tuple, 3)),
                inverted |-> ToBoolean(TupleAt(tuple, 4))] >>
       [] type = "merge-call-node" ->
            << [type |-> type,
                implementation |-> toValidImplementationFilter(TupleAt(tuple, 2)),
                callNodePath |-> decodeUintArrayFromUrlComponent(TupleAt(tuple, 3))] >>

RECURSIVE ParseTransformsLoop_abortOnEmpty(_, _, _)
ParseTransformsLoop_abortOnEmpty(pieces, i, transformStack) ==
  IF i > Len(pieces) \/ ParseTransform(pieces[i]) = <<>> THEN transformStack
  ELSE ParseTransformsLoop_abortOnEmpty(pieces, i + 1,
                                        transformStack \o ParseTransform(pieces[i]))

RECURSIVE ParseTransformsLoop(_, _, _)
ParseTransformsLoop(pieces, i, transformStack) ==
  IF i > Len(pieces) THEN transformStack
  ELSE ParseTransformsLoop(pieces, i + 1, transformStack \o ParseTransform(pieces[i]))

parseTransforms(s) ==
  IF s = <<>> THEN <<>>
  ELSE ParseTransformsLoop(Split(s, "~"), 1, <<>>)

\* The body of the map of stringifyTransforms.
StringifyTransform_noInvertedFlag(transform) ==
  LET shortKey == TRANSFORM_TO_SHORT_KEY[transform.type]
  IN CASE transform.type \in {"merge-function", "drop-function",
                              "collapse-function-subtree", "focus-function"} ->
            Join(<<shortKey, NumberToString(transform.funcIndex)>>, "-")
       [] transform.type = "focus-category" ->
            Join(<<shortKey, NumberToString(transform.category)>>, "-")
       [] transform.type = "collapse-resource" ->
            Join(<<shortKey, transform.implementation,
                   NumberToString(transform.resourceIndex),
                   NumberToString(transform.collapsedFuncIndex)>>, "-")
       [] transform.type \in {"collapse-direct-recursion",
                              "collapse-indirect-recursion"} ->
            Join(<<shortKey, transform.implementation,
                   NumberToString(transform.funcIndex)>>, "-")
       [] transform.type \in {"focus-subtree", "merge-call-node"} ->
            Join(<<shortKey, transform.implementation,
                   encodeUintArrayForUrlComponent(transform.callNodePath)>>, "-")

StringifyTransform(transform) ==
  LET shortKey == TRANSFORM_TO_SHORT_KEY[transform.type]
  IN CASE transform.type \in {"merge-function", "drop-function",
                              "collapse-function-subtree", "focus-function"} ->
            Join(<<shortKey, NumberToString(transform.funcIndex)>>, "-")
       [] transform.type = "focus-category" ->
            Join(<<shortKey, NumberToString(transform.category)>>, "-")
       [] transform.type = "collapse-resource" ->
            Join(<<shortKey, transform.implementation,
                   NumberToString(transform.resourceIndex),
                   NumberToString(transform.collapsedFuncIndex)>>, "-")
       [] transform.type \in {"collapse-direct-recursion",
                              "collapse-indirect-recursion"} ->
            Join(<<shortKey, transform.implementation,
                   NumberToString(transform.funcIndex)>>, "-")
       [] transform.type \in {"focus-subtree", "merge-call-node"} ->
            LET string == Join(<<shortKey, transform.implementation,
                                 encodeUintArrayForUrlComponent(transform.callNodePath)>>,
                               "-")
            IN IF "inverted" \in DOMAIN transform /\ transform.inverted
               THEN string \o <<"-", "i">> ELSE string

stringifyTransforms(transformStack) ==
  Join([i \in 1..Len(transformStack) |-> StringifyTransform(transformStack[i])], "~")

\* ------------------------------------------- the transform strings of a URL
MaxUrlTransforms == 3

NumberFields == { <<>>, <<"0">>, <<"1", "2">>, <<"x">>, <<"0", "7">>, <<"3", "x">> }
PathFields == { <<"w">>, <<"1", "x", "B">> }
UnknownShortKeys == { <<>>, <<"z", "z">> }

\* The "-"-separated fields of one piece of a transform string.
UrlTransformFields ==
  { <<shortKey, n>> : shortKey \in {<<"d", "f">>, <<"f", "g">>}, n \in NumberFields }
  \cup { <<shortKey, <<"7">> >> :
           shortKey \in {<<"m", "f">>, <<"f", "f">>, <<"c", "f", "s">>} }
  \cup { << <<"d", "f">> >>, << <<"d", "f">>, <<>>, <<"1">> >> }
  \cup { << <<"c", "r">>, ImplementationJs, r, c >> :
           r \in {<<"3">>, <<"x">>}, c \in {<<"8">>, <<>>} }
  \cup { << <<"r", "e", "c">>, i, n >> :
           i \in {ImplementationCpp, <<"z", "z">>}, n \in {<<"5">>, <<"x">>} }
  \cup { << <<"i", "r", "e", "c">>, ImplementationCombined, <<"5">> >> }
  \cup { << <<"f">>, ImplementationJs, p >> : p \in PathFields }
  \cup { << <<"f">>, ImplementationJs, p, flag >> :
           p \in PathFields, flag \in {<<"i">>, <<"x">>} }
  \cup { << <<"m", "c", "n">>, ImplementationCombined, p >> : p \in PathFields }
  \cup { << <<"m", "c", "n">>, ImplementationJs, <<"w">>, <<"i">> >> }
  \cup { <<shortKey, <<"7">> >> : shortKey \in UnknownShortKeys }

UrlTransformPieces == { Join(fields, "-") : fields \in UrlTransformFields }

UrlTransformStrings ==
  { Join(pieces, "~") :
      pieces \in UNION { [1..n -> UrlTransformPieces] : n \in 0..MaxUrlTransforms } }

InitUrl ==
  /\ transformString \in UrlTransformStrings
  /\ parsedTransforms = NotComputed
  /\ stringifiedTransforms = NotComputed
  /\ OthersThanUrlIdle

ParseTransforms ==
  /\ ~parsedTransforms.computed
  /\ parsedTransforms' =
       [computed |-> TRUE, transforms |-> parseTransforms(transformString)]
  /\ UNCHANGED <<transformString, stringifiedTransforms, othersThanUrl>>

StringifyTransforms ==
  /\ parsedTransforms.computed
  /\ ~stringifiedTransforms.computed
  /\ stringifiedTransforms' =
       [computed |-> TRUE, string |-> stringifyTransforms(parsedTransforms.transforms)]
  /\ UNCHANGED <<transformString, parsedTransforms, othersThanUrl>>

NextUrl == ParseTransforms \/ StringifyTransforms

SpecUrl == InitUrl /\ [][NextUrl]_vars

\* ===================================================== func substitution
\* A FuncToFuncsMap is a function from its keys to lists of funcs; a PathSet is
\* the set of its call paths.

\* path.reduce of applyFuncSubstitutionToCallPath, from oldFunc number i on.
RECURSIVE SubstitutionReduce_keepKey(_, _, _, _)
SubstitutionReduce_keepKey(funcMap, path, i, accum) ==
  IF i > Len(path) THEN accum
  ELSE LET oldFunc == path[i]
       IN SubstitutionReduce_keepKey(funcMap, path, i + 1,
            IF oldFunc \notin DOMAIN funcMap THEN Append(accum, oldFunc)
            ELSE Append(accum, oldFunc) \o funcMap[oldFunc])

RECURSIVE SubstitutionReduce(_, _, _, _)
SubstitutionReduce(funcMap, path, i, accum) ==
  IF i > Len(path) THEN accum
  ELSE LET oldFunc == path[i]
       IN SubstitutionReduce(funcMap, path, i + 1,
            IF oldFunc \notin DOMAIN funcMap THEN Append(accum, oldFunc)
            ELSE accum \o funcMap[oldFunc])

applyFuncSubstitutionToCallPath(funcMap, path) ==
  SubstitutionReduce(funcMap, path, 1, <<>>)

\* The paths pushed for one callPath of the path set.
NewPathsOf_leafOnly(funcMap, callPath) ==
  {applyFuncSubstitutionToCallPath(funcMap, callPath)}

NewPathsOf(funcMap, callPath) ==
  LET newCallPath_ == applyFuncSubstitutionToCallPath(funcMap, callPath)
      oldLeaf == callPath[Len(callPath)]
      mappedOldLeaf == applyFuncSubstitutionToCallPath(funcMap, <<oldLeaf>>)
      mappedOldLeafSubpathLen == Len(mappedOldLeaf)
  IN {newCallPath_}
       \cup (IF mappedOldLeafSubpathLen > 1
             THEN { SubSeq(newCallPath_, 1, Len(newCallPath_) - i) :
                      i \in 1..(mappedOldLeafSubpathLen - 1) }
             ELSE {})

applyFuncSubstitutionToPathSetAndIncludeNewAncestors(funcMap, paths) ==
  UNION { NewPathsOf(funcMap, callPath) : callPath \in paths }

\* ------------------------------------------------ the symbolication inputs
MaxPathLen == 3
MaxPaths == 2

PathFuncs == {1, 3, 7}
MappedFuncs == {1, 7}
NewFuncLists == { <<>>, <<9>>, <<7, 9>>, <<9, 7, 1>> }

CallPaths == UNION { [1..n -> PathFuncs] : n \in 1..MaxPathLen }
PathSets ==
  UNION { { { paths[i] : i \in 1..n } : paths \in [1..n -> CallPaths] } : n \in 0..MaxPaths }
FuncToFuncsMaps == UNION { [keys -> NewFuncLists] : keys \in SUBSET MappedFuncs }

InitSubstitution ==
  /\ oldFuncToNewFuncsMap \in FuncToFuncsMaps
  /\ pathSet \in PathSets
  /\ newCallPath = NotComputed
  /\ newPathSet = NotComputed
  /\ OthersThanSubstitutionIdle

ApplyFuncSubstitutionToCallPath ==
  \E path \in pathSet :
    /\ ~newCallPath.computed
    /\ newCallPath' =
         [computed |-> TRUE, path |-> path,
          result |-> applyFuncSubstitutionToCallPath(oldFuncToNewFuncsMap, path)]
    /\ UNCHANGED <<oldFuncToNewFuncsMap, pathSet, newPathSet, othersThanSubstitution>>

ApplyFuncSubstitutionToPathSetAndIncludeNewAncestors ==
  /\ ~newPathSet.computed
  /\ newPathSet' =
       [computed |-> TRUE,
        paths |-> applyFuncSubstitutionToPathSetAndIncludeNewAncestors(
                    oldFuncToNewFuncsMap, pathSet)]
  /\ UNCHANGED <<oldFuncToNewFuncsMap, pathSet, newCallPath, othersThanSubstitution>>

NextSubstitution ==
  ApplyFuncSubstitutionToCallPath \/ ApplyFuncSubstitutionToPathSetAndIncludeNewAncestors

SpecSubstitution == InitSubstitution /\ [][NextSubstitution]_vars

\* ===================================================== diff correspondence
\* A call tree, as far as the correspondence reads it, is its call node table
\* and the file name annotation of each func of its thread.
NoCompareCallNode == 0     \* undefined: no compare call node

\* utils/hash: a hash of the characters of a string into 0..HashModulus-1.
HashModulus == 17

RECURSIVE Cyrb53Loop(_, _, _)
Cyrb53Loop(s, i, h) ==
  IF i > Len(s) THEN h
  ELSE Cyrb53Loop(s, i + 1, (h * Len(EncodingChars) + SextetOf(s[i]) + 1) % HashModulus)

cyrb53(s) == Cyrb53Loop(s, 1, 0)

\* CallTree._getFileNameAnnotation
_getFileNameAnnotation(tree, callNodeIndex) ==
  tree.fileNameAnnotation[tree.callNodeTable.func[callNodeIndex]]

\* `${prefixPath}${libName}` hashed, for the call node after those of
\* prefixPaths.
PathHash_ownAnnotationOnly(tree, prefixPaths, callNodeIndex) ==
  cyrb53(NumberToString(0) \o _getFileNameAnnotation(tree, callNodeIndex))

PathHash(tree, prefixPaths, callNodeIndex) ==
  LET prefix == tree.callNodeTable.prefix[callNodeIndex]
      prefixPath == IF prefix = NoPrefix THEN 0 ELSE prefixPaths[prefix]
      libName == _getFileNameAnnotation(tree, callNodeIndex)
  IN cyrb53(NumberToString(prefixPath) \o libName)

\* compareCallNodePathCache[path] = callNodeIndex
CacheStore_firstWriterWins(cache, path, callNodeIndex) ==
  IF path \in DOMAIN cache THEN cache
  ELSE [p \in DOMAIN cache \cup {path} |->
          IF p = path THEN callNodeIndex ELSE cache[p]]

CacheStore(cache, path, callNodeIndex) ==
  [p \in DOMAIN cache \cup {path} |-> IF p = path THEN callNodeIndex ELSE cache[p]]

\* The loop over the compare tree: acc.prefixPaths is comparePrefixPaths as
\* far as it is filled, acc.cache is compareCallNodePathCache.
RECURSIVE ComparePathLoop(_, _, _)
ComparePathLoop(tree, callNodeIndex, acc) ==
  IF callNodeIndex > Len(tree.callNodeTable.prefix) THEN acc
  ELSE LET path == PathHash(tree, acc.prefixPaths, callNodeIndex)
       IN ComparePathLoop(tree, callNodeIndex + 1,
            [prefixPaths |-> Append(acc.prefixPaths, path),
             cache |-> CacheStore(acc.cache, path, callNodeIndex)])

\* Map.set(callNodeIndex, compareCallNodeIndex): the key is in the map
\* whatever the value.
MapSet_onlyDefined(table, callNodeIndex, compareCallNodeIndex) ==
  IF compareCallNodeIndex = NoCompareCallNode THEN table
  ELSE [n \in DOMAIN table \cup {callNodeIndex} |->
          IF n = callNodeIndex THEN compareCallNodeIndex ELSE table[n]]

MapSet(table, callNodeIndex, compareCallNodeIndex) ==
  [n \in DOMAIN table \cup {callNodeIndex} |->
     IF n = callNodeIndex THEN compareCallNodeIndex ELSE table[n]]

\* Map.get(key): undefined for a key that is not in the map.
MapGet(table, key) == IF key \in DOMAIN table THEN table[key] ELSE NoCompareCallNode

\* The loop over the selected tree.
RECURSIVE SelectedPathLoop(_, _, _, _)
SelectedPathLoop(tree, cache, callNodeIndex, acc) ==
  IF callNodeIndex > Len(tree.callNodeTable.prefix) THEN acc
  ELSE LET path == PathHash(tree, acc.prefixPaths, callNodeIndex)
           compareCallNodeIndex ==
             IF path \in DOMAIN cache THEN cache[path] ELSE NoCompareCallNode
       IN SelectedPathLoop(tree, cache, callNodeIndex + 1,
            [prefixPaths |-> Append(acc.prefixPaths, path),
             table |-> MapSet(acc.table, callNodeIndex, compareCallNodeIndex)])

getCallNodeIndexToCompareCallNodeIndexTable(selectedTree, compareTree) ==
  LET compared == ComparePathLoop(compareTree, 1,
                    [prefixPaths |-> <<>>, cache |-> [p \in {} |-> 0]])
      selected == SelectedPathLoop(selectedTree, compared.cache, 1,
                    [prefixPaths |-> <<>>, table |-> [n \in {} |-> 0]])
  IN selected.table

\* ------------------------------------------------ the two trees compared
FileNameAnnotations == { <<"a">>, <<"b">> }

ComparedCallTrees ==
  { [computed |-> TRUE,
     callNodeTable |-> getCallNodeInfo(stackTable).callNodeTable,
     fileNameAnnotation |-> annotation] :
      stackTable \in StackTables, annotation \in [1..NumFuncs -> FileNameAnnotations] }

InitCompare ==
  /\ selectedCallTree \in ComparedCallTrees
  /\ compareCallTree \in ComparedCallTrees
  /\ callNodeIndexToCompareCallNodeIndexTable = NotComputed
  /\ renderedRow = NotComputed
  /\ OthersThanCompareIdle

GetCallNodeIndexToCompareCallNodeIndexTable ==
  /\ ~callNodeIndexToCompareCallNodeIndexTable.computed
  /\ callNodeIndexToCompareCallNodeIndexTable' =
       [computed |-> TRUE,
        table |-> getCallNodeIndexToCompareCallNodeIndexTable(selectedCallTree,
                                                              compareCallTree)]
  /\ UNCHANGED <<selectedCallTree, compareCallTree, renderedRow, othersThanCompare>>

\* TreeView._renderRow in compare mode: the compare display data of a row.
RenderRow ==
  \E nodeId \in 1..Len(selectedCallTree.callNodeTable.prefix) :
    /\ callNodeIndexToCompareCallNodeIndexTable.computed
    /\ ~renderedRow.computed
    /\ LET compareCallNodeIndex ==
             MapGet(callNodeIndexToCompareCallNodeIndexTable.table, nodeId)
       IN renderedRow' =
            [computed |-> TRUE, nodeId |-> nodeId,
             compareCallNodeIndex |-> compareCallNodeIndex,
             hasCompareDisplayData |-> compareCallNodeIndex # NoCompareCallNode]
    /\ UNCHANGED <<selectedCallTree, compareCallTree,
                   callNodeIndexToCompareCallNodeIndexTable, othersThanCompare>>

NextCompare == GetCallNodeIndexToCompareCallNodeIndexTable \/ RenderRow

SpecCompare == InitCompare /\ [][NextCompare]_vars

\* ===================================================== summary strategy
\* Of a thread the selector reads the length of its samples table and whether
\* it has a jsAllocations and a nativeAllocations table, and the length of the
\* latter.  A table that is absent has the length -1 here.  A nativeAllocations
\* table has a memoryAddress column or not.
AbsentTable == -1
MaxTableLength == 2

CallTreeSummaryStrategies ==
  {"timing", "js-allocations", "native-retained-allocations", "native-allocations",
   "native-deallocations-memory", "native-deallocations-sites"}

getCallTreeSummaryStrategy_keepLastSelected(tables, lastSelected) ==
  IF /\ lastSelected = "timing"
     /\ tables.samplesLength = 0
     /\ tables.nativeAllocationsLength # AbsentTable
     /\ tables.nativeAllocationsLength > 0
  THEN "native-allocations"
  ELSE lastSelected

getCallTreeSummaryStrategy(tables, lastSelected) ==
  CASE lastSelected = "timing" ->
         IF /\ tables.samplesLength = 0
            /\ tables.nativeAllocationsLength # AbsentTable
            /\ tables.nativeAllocationsLength > 0
         THEN "native-allocations"
         ELSE lastSelected
    [] lastSelected = "js-allocations" ->
         IF tables.jsAllocationsLength = AbsentTable THEN "timing" ELSE lastSelected
    [] lastSelected \in {"native-allocations", "native-retained-allocations",
                         "native-deallocations-sites", "native-deallocations-memory"} ->
         IF tables.nativeAllocationsLength = AbsentTable THEN "timing" ELSE lastSelected

ThreadTables ==
  { tables \in [computed : {TRUE},
                samplesLength : 0..MaxTableLength,
                jsAllocationsLength : {AbsentTable} \cup 0..MaxTableLength,
                nativeAllocationsLength : {AbsentTable} \cup 0..MaxTableLength,
                nativeAllocationsMemoryAddress : BOOLEAN] :
      tables.nativeAllocationsMemoryAddress =>
        tables.nativeAllocationsLength # AbsentTable }

\* What a call of extractSamplesLikeTable ends with: the table returned, named
\* by the table of the thread it is made from, or the error thrown.
Returned(table) == [computed |-> TRUE, threw |-> FALSE, table |-> table]
Thrown == [computed |-> TRUE, threw |-> TRUE, table |-> "none"]

extractSamplesLikeTable(tables, strategy) ==
  CASE strategy = "timing" -> Returned("samples")
    [] strategy = "js-allocations" ->
         IF tables.jsAllocationsLength = AbsentTable THEN Thrown
         ELSE Returned("jsAllocations")
    [] strategy \in {"native-retained-allocations", "native-deallocations-memory"} ->
         IF tables.nativeAllocationsLength = AbsentTable THEN Thrown
         ELSE IF ~tables.nativeAllocationsMemoryAddress THEN Thrown
         ELSE Returned("nativeAllocations")
    [] strategy \in {"native-allocations", "native-deallocations-sites"} ->
         IF tables.nativeAllocationsLength = AbsentTable THEN Thrown
         ELSE Returned("nativeAllocations")

InitStrategy ==
  /\ threadTables \in ThreadTables
  /\ lastSelectedCallTreeSummaryStrategy = "timing"
  /\ callTreeSummaryStrategy = NotComputed
  /\ unfilteredSamplesForCallTree = NotComputed
  /\ OthersThanStrategyIdle

ChangeCallTreeSummaryStrategy ==
  \E callTreeSummaryStrategy_ \in
       CallTreeSummaryStrategies \ {lastSelectedCallTreeSummaryStrategy} :
    /\ lastSelectedCallTreeSummaryStrategy' = callTreeSummaryStrategy_
    /\ callTreeSummaryStrategy' = NotComputed
    /\ unfilteredSamplesForCallTree' = NotComputed
    /\ UNCHANGED <<threadTables, othersThanStrategy>>

GetCallTreeSummaryStrategy ==
  /\ ~callTreeSummaryStrategy.computed
  /\ callTreeSummaryStrategy' =
       [computed |-> TRUE,
        strategy |-> getCallTreeSummaryStrategy(threadTables,
                                                lastSelectedCallTreeSummaryStrategy)]
  /\ UNCHANGED <<threadTables, lastSelectedCallTreeSummaryStrategy,
                 unfilteredSamplesForCallTree, othersThanStrategy>>

\* The getUnfilteredSamplesForCallTree selector, with the strategy selector it
\* reads.
GetUnfilteredSamplesForCallTree ==
  /\ ~unfilteredSamplesForCallTree.computed
  /\ callTreeSummaryStrategy' =
       [computed |-> TRUE,
        strategy |-> getCallTreeSummaryStrategy(threadTables,
                                                lastSelectedCallTreeSummaryStrategy)]
  /\ unfilteredSamplesForCallTree' =
       extractSamplesLikeTable(threadTables,
         getCallTreeSummaryStrategy(threadTables, lastSelectedCallTreeSummaryStrategy))
  /\ UNCHANGED <<threadTables, lastSelectedCallTreeSummaryStrategy, othersThanStrategy>>

NextStrategy ==
  \/ ChangeCallTreeSummaryStrategy
  \/ GetCallTreeSummaryStrategy
  \/ GetUnfilteredSamplesForCallTree

SpecStrategy == InitStrategy /\ [][NextStrategy]_vars

SeqToSet(seq) == { seq[i] : i \in 1..Len(seq) }

\* ===================================================== CallTree queries
\* value / this._rootTotalSummary, kept as a fraction; 0 when the divisor is 0.
Relative(value, rootTotalSummary) ==
  IF rootTotalSummary # 0 THEN [num |-> value, den |-> rootTotalSummary]
  ELSE [num |-> 0, den |-> 1]

\* Mutant: the array is cached before it is sorted.
StoreChildren_unsorted(tree, callNodeIndex) ==
  IF callNodeIndex \in DOMAIN tree.children THEN tree
  ELSE [tree EXCEPT !.children =
          [n \in DOMAIN tree.children \cup {callNodeIndex} |->
             IF n = callNodeIndex
             THEN CollectChildren(tree, callNodeIndex, callNodeIndex + 1,
                    IF callNodeIndex = NoPrefix THEN tree.rootCount
                    ELSE tree.callNodeChildCount[callNodeIndex], <<>>)
             ELSE tree.children[n]]]

\* The tree after getChildren(callNodeIndex): this._children[callNodeIndex] is
\* written when it was undefined.
StoreChildren(tree, callNodeIndex) ==
  IF callNodeIndex \in DOMAIN tree.children THEN tree
  ELSE [tree EXCEPT !.children =
          [n \in DOMAIN tree.children \cup {callNodeIndex} |->
             IF n = callNodeIndex THEN ComputeChildren(tree, callNodeIndex)
             ELSE tree.children[n]]]

hasChildren(tree, callNodeIndex) == Len(getChildren(tree, callNodeIndex)) # 0

\* _addDescendantsToSet: acc holds the tree (its children cache grows) and the
\* set being filled.
RECURSIVE _addDescendantsToSet(_, _)
RECURSIVE AddDescendantsLoop(_, _, _)
AddDescendantsLoop(acc, children, i) ==
  IF i > Len(children) THEN acc
  ELSE AddDescendantsLoop(
         _addDescendantsToSet([tree |-> acc.tree, set |-> acc.set \cup {children[i]}],
                              children[i]),
         children, i + 1)

_addDescendantsToSet(acc, callNodeIndex) ==
  AddDescendantsLoop([tree |-> StoreChildren(acc.tree, callNodeIndex), set |-> acc.set],
                     getChildren(acc.tree, callNodeIndex), 1)

\* Mutant: only the children are added.
getAllDescendants_childrenOnly(tree, callNodeIndex) ==
  [tree |-> StoreChildren(tree, callNodeIndex),
   set |-> { getChildren(tree, callNodeIndex)[i] :
               i \in 1..Len(getChildren(tree, callNodeIndex)) }]

\* getAllDescendants: the set returned and the tree after the call.
getAllDescendants(tree, callNodeIndex) ==
  _addDescendantsToSet([tree |-> tree, set |-> {}], callNodeIndex)

getParent(tree, callNodeIndex) == tree.callNodeTable.prefix[callNodeIndex]

getDepth(tree, callNodeIndex) == tree.callNodeTable.depth[callNodeIndex]

getNodeTotal(tree, callNodeIndex) ==
  [total |-> tree.callNodeSummary.total[callNodeIndex],
   totalRelative |-> Relative(tree.callNodeSummary.total[callNodeIndex],
                              tree.rootTotalSummary)]

getNodeData(tree, callNodeIndex) ==
  [funcName |-> FuncNames[tree.callNodeTable.func[callNodeIndex]],
   total |-> getNodeTotal(tree, callNodeIndex).total,
   totalRelative |-> getNodeTotal(tree, callNodeIndex).totalRelative,
   self |-> tree.callNodeSummary.self[callNodeIndex],
   selfRelative |-> Relative(tree.callNodeSummary.self[callNodeIndex],
                             tree.rootTotalSummary)]

\* The display data built on a cache miss (the columns that depend on the
\* thread's libs and categories are left out: the threads of the model have none).
ComputeDisplayData(tree, callNodeIndex) ==
  LET data == getNodeData(tree, callNodeIndex)
  IN [total |-> NumberToString(data.total),
      self |-> NumberToString(data.self),
      selfRelative |-> data.selfRelative,
      totalRelative |-> data.totalRelative,
      name |-> data.funcName]

getDisplayData(tree, callNodeIndex) ==
  IF callNodeIndex \in DOMAIN tree.displayDataByIndex
  THEN tree.displayDataByIndex[callNodeIndex]
  ELSE ComputeDisplayData(tree, callNodeIndex)

\* this._displayDataByIndex.set(callNodeIndex, displayData) on a cache miss.
StoreDisplayData(tree, callNodeIndex) ==
  IF callNodeIndex \in DOMAIN tree.displayDataByIndex THEN tree
  ELSE [tree EXCEPT !.displayDataByIndex =
          [n \in DOMAIN tree.displayDataByIndex \cup {callNodeIndex} |->
             IF n = callNodeIndex THEN ComputeDisplayData(tree, callNodeIndex)
             ELSE tree.displayDataByIndex[n]]]

\* The threads queried: the stacks are at most two levels below the first one,
\* the last stack has the func of the one before it or a new one, and every
\* stack has one weighted sample, the first of weight 12.  Inverting multiplies
\* the call nodes, so an inverted tree is queried on the threads of at most
\* MaxInvertedQueryStacks stacks.
MaxInvertedQueryStacks == 2

QueryStackTables ==
  { [prefix |-> p, func |-> f] :
      p \in { <<0, 0, 0>>, <<0, 0, 1>>, <<0, 1, 1>>, <<0, 1, 2>> },
      f \in { <<1, 2, 3>>, <<1, 2, 2>> } }
  \cup
  { [prefix |-> p, func |-> f] :
      p \in { <<0, 0>>, <<0, 1>> }, f \in { <<1, 2>>, <<1, 1>> } }

QueryThreads ==
  UNION { { [stackTable |-> t,
             samples |-> [stack |-> [i \in 1..Len(t.prefix) |-> i], hasWeight |-> TRUE,
                          weight |-> <<12>> \o w,
                          time |-> [i \in 1..Len(t.prefix) |-> 0]]] :
              w \in [1..(Len(t.prefix) - 1) -> Weights] } :
          t \in QueryStackTables }

\* The state after new CallTree(...): both caches are empty.
InitQueries ==
  /\ thread \in QueryThreads
  /\ relevantPages = {}
  /\ committedRange = RootRange(thread)
  /\ transforms = <<>>
  /\ implementation = "combined"
  /\ searchStrings = <<>>
  /\ invertCallstack \in BOOLEAN
  /\ invertCallstack => Len(thread.stackTable.prefix) <= MaxInvertedQueryStacks
  /\ callTreeCountsAndSummary = getCallTreeCountsAndSummary
  /\ callTree = getCallTree(getPreviewFilteredThread, getCallNodeInfoOfFilteredThread,
                            getCallTreeCountsAndSummary)
  /\ lastCall = NotComputed
  /\ OthersThanCallTreeQueriesIdle

QueryNodes == 1..Len(callTree.callNodeTable.prefix)

Called(method, arg, result) ==
  [computed |-> TRUE, method |-> method, arg |-> arg, result |-> result]

UnchangedByQuery ==
  UNCHANGED <<thread, relevantPages, committedRange, transforms, implementation,
              searchStrings, invertCallstack, callTreeCountsAndSummary,
              othersThanCallTreeQueries>>

GetRoots ==
  /\ lastCall' = Called("getRoots", NoPrefix, getRoots(callTree))
  /\ callTree' = StoreChildren(callTree, NoPrefix)
  /\ UnchangedByQuery

GetChildren ==
  \E callNodeIndex \in QueryNodes :
    /\ lastCall' = Called("getChildren", callNodeIndex, getChildren(callTree, callNodeIndex))
    /\ callTree' = StoreChildren(callTree, callNodeIndex)
    /\ UnchangedByQuery

HasChildren ==
  \E callNodeIndex \in QueryNodes :
    /\ lastCall' = Called("hasChildren", callNodeIndex, hasChildren(callTree, callNodeIndex))
    /\ callTree' = StoreChildren(callTree, callNodeIndex)
    /\ UnchangedByQuery

GetAllDescendants ==
  \E callNodeIndex \in QueryNodes :
    /\ lastCall' = Called("getAllDescendants", callNodeIndex,
                          getAllDescendants(callTree, callNodeIndex).set)
    /\ callTree' = getAllDescendants(callTree, callNodeIndex).tree
    /\ UnchangedByQuery

GetParent ==
  \E callNodeIndex \in QueryNodes :
    /\ lastCall' = Called("getParent", callNodeIndex, getParent(callTree, callNodeIndex))
    /\ UNCHANGED callTree
    /\ UnchangedByQuery

GetDepth ==
  \E callNodeIndex \in QueryNodes :
    /\ lastCall' = Called("getDepth", callNodeIndex, getDepth(callTree, callNodeIndex))
    /\ UNCHANGED callTree
    /\ UnchangedByQuery

GetNodeTotal ==
  \E callNodeIndex \in QueryNodes :
    /\ lastCall' = Called("getNodeTotal", callNodeIndex, getNodeTotal(callTree, callNodeIndex))
    /\ UNCHANGED callTree
    /\ UnchangedByQuery

GetDisplayData ==
  \E callNodeIndex \in QueryNodes :
    /\ lastCall' = Called("getDisplayData", callNodeIndex,
                          getDisplayData(callTree, callNodeIndex))
    /\ callTree' = StoreDisplayData(callTree, callNodeIndex)
    /\ UnchangedByQuery

NextQueries ==
  \/ GetRoots
  \/ GetChildren
  \/ HasChildren
  \/ GetAllDescendants
  \/ GetParent
  \/ GetDepth
  \/ GetNodeTotal
  \/ GetDisplayData

SpecQueries == InitQueries /\ [][NextQueries]_vars

\* ===================================================== tree view
NoSelection == 0   \* selectedNodeId === null

\* _addVisibleRowsFromNode: acc holds the tree (its children cache grows) and
\* the array of rows being filled.
RECURSIVE _addVisibleRowsFromNode(_, _, _)
RECURSIVE AddVisibleRowsLoop(_, _, _, _)
AddVisibleRowsLoop(acc, expandedNodes, children, i) ==
  IF i > Len(children) THEN acc
  ELSE AddVisibleRowsLoop(_addVisibleRowsFromNode(acc, expandedNodes, children[i]),
                          expandedNodes, children, i + 1)

_addVisibleRowsFromNode(acc, expandedNodes, nodeId) ==
  IF nodeId \notin expandedNodes
  THEN [tree |-> acc.tree, arr |-> Append(acc.arr, nodeId)]
  ELSE AddVisibleRowsLoop([tree |-> StoreChildren(acc.tree, nodeId),
                           arr |-> Append(acc.arr, nodeId)],
                          expandedNodes, getChildren(acc.tree, nodeId), 1)

\* Mutant: the rows of the roots only, whatever is expanded.
_computeAllVisibleRows_rootsOnly(tree, expandedNodes) ==
  [tree |-> StoreChildren(tree, NoPrefix), arr |-> getRoots(tree)]

\* _computeAllVisibleRowsMemoized: the rows, and the tree after the call.
_computeAllVisibleRows(tree, expandedNodes) ==
  AddVisibleRowsLoop([tree |-> StoreChildren(tree, NoPrefix), arr |-> <<>>],
                     expandedNodes, getRoots(tree), 1)

\* visibleRows.findIndex(nodeId => nodeId === selected): 0 stands for -1.
FindIndex(rows, nodeId) ==
  IF \E i \in 1..Len(rows) : rows[i] = nodeId
  THEN CHOOSE i \in 1..Len(rows) : rows[i] = nodeId /\ \A j \in 1..(i - 1) : rows[j] # nodeId
  ELSE 0

\* The key events of the model: the navigation keys and the asterisk, the two
\* vertical arrows also with one modifier key held.
NavigationKeys == {"ArrowUp", "ArrowDown", "ArrowLeft", "ArrowRight", "Home", "End"}
Modifiers == {"none", "ctrlKey", "altKey", "metaKey"}
KeyEvents ==
  { [key |-> k, modifier |-> "none"] : k \in NavigationKeys \cup {"*"} }
  \cup
  { [key |-> k, modifier |-> m] : k \in {"ArrowUp", "ArrowDown"},
                                 m \in Modifiers \ {"none"} }

\* _toggle(nodeId, newExpanded, toggleAll): the new expanded set and the tree
\* after the call.
_toggle(tree, expandedNodes, nodeId, newExpanded, toggleAll) ==
  IF ~newExpanded THEN [tree |-> tree, expanded |-> expandedNodes \ {nodeId}]
  ELSE IF toggleAll
  THEN [tree |-> getAllDescendants(tree, nodeId).tree,
        expanded |-> expandedNodes \cup {nodeId} \cup getAllDescendants(tree, nodeId).set]
  ELSE [tree |-> tree, expanded |-> expandedNodes \cup {nodeId}]

\* The row _onKeyDown selects for a navigation key, selected being the row of
\* index selectedRowIndex of visibleRows; the selected row itself when the
\* handler makes no selection.
KeyTarget(tree, event, visibleRows, selected, selectedRowIndex, isCollapsed) ==
  CASE event.key = "ArrowUp" ->
         IF event.modifier = "metaKey" THEN visibleRows[1]
         ELSE IF selectedRowIndex > 1 THEN visibleRows[selectedRowIndex - 1]
         ELSE selected
    [] event.key = "ArrowDown" ->
         IF event.modifier = "metaKey" THEN visibleRows[Len(visibleRows)]
         ELSE IF selectedRowIndex < Len(visibleRows) THEN visibleRows[selectedRowIndex + 1]
         ELSE selected
    [] event.key = "Home" -> visibleRows[1]
    [] event.key = "End" -> visibleRows[Len(visibleRows)]
    [] event.key = "ArrowLeft" ->
         IF isCollapsed /\ getParent(tree, selected) # NoPrefix
         THEN getParent(tree, selected)
         ELSE selected
    [] event.key = "ArrowRight" ->
         IF ~isCollapsed /\ hasChildren(tree, selected)
         THEN getChildren(tree, selected)[1]
         ELSE selected
    [] OTHER -> selected

\* The expanded set after _onKeyDown on a selected visible row.
KeyToggle(tree, event, expandedNodes, selected, isCollapsed) ==
  CASE event.key = "ArrowLeft" /\ ~isCollapsed ->
         _toggle(tree, expandedNodes, selected, isCollapsed, FALSE)
    [] event.key = "ArrowRight" /\ isCollapsed ->
         _toggle(tree, expandedNodes, selected, isCollapsed, FALSE)
    [] event.key = "*" ->
         _toggle(tree, expandedNodes, selected, isCollapsed, TRUE)
    [] OTHER -> [tree |-> tree, expanded |-> expandedNodes]

\* The tree view is shown for the non-inverted tree of a queried thread: no row
\* is selected or expanded, the rows of the roots have been rendered.
InitTreeView ==
  /\ thread \in QueryThreads
  /\ Len(thread.stackTable.prefix) = MaxStacks
  /\ relevantPages = {}
  /\ committedRange = RootRange(thread)
  /\ transforms = <<>>
  /\ implementation = "combined"
  /\ searchStrings = <<>>
  /\ invertCallstack = FALSE
  /\ callTreeCountsAndSummary = getCallTreeCountsAndSummary
  /\ callTree = _computeAllVisibleRows(
                  getCallTree(getPreviewFilteredThread, getCallNodeInfoOfFilteredThread,
                              getCallTreeCountsAndSummary), {}).tree
  /\ selectedNodeId = NoSelection
  /\ expandedNodeIds = {}
  /\ lastKeyDown = NotComputed
  /\ OthersThanCallTreeTreeViewIdle

UnchangedByTreeView ==
  UNCHANGED <<thread, relevantPages, committedRange, transforms, implementation,
              searchStrings, invertCallstack, callTreeCountsAndSummary,
              othersThanCallTreeTreeView>>

\* _onKeyDown, followed by the render of the rows the new props show.
OnKeyDown ==
  \E event \in KeyEvents :
    LET hasModifier == event.modifier \in {"ctrlKey", "altKey"}
        all == _computeAllVisibleRows(callTree, expandedNodeIds)
        visibleRows == all.arr
        selectedRowIndex == FindIndex(visibleRows, selectedNodeId)
        isCollapsed == selectedNodeId \notin expandedNodeIds
        toggled == KeyToggle(all.tree, event, expandedNodeIds, selectedNodeId, isCollapsed)
    IN /\ lastKeyDown' = [computed |-> TRUE, event |-> event,
                          selected |-> selectedNodeId, expanded |-> expandedNodeIds]
       /\ IF hasModifier
          THEN UNCHANGED <<selectedNodeId, expandedNodeIds, callTree>>
          ELSE IF selectedNodeId = NoSelection \/ selectedRowIndex = 0
          THEN /\ selectedNodeId' = IF visibleRows = <<>> THEN NoSelection
                                    ELSE visibleRows[1]
               /\ expandedNodeIds' = expandedNodeIds
               /\ callTree' = all.tree
          ELSE /\ selectedNodeId' = KeyTarget(all.tree, event, visibleRows, selectedNodeId,
                                              selectedRowIndex, isCollapsed)
               /\ expandedNodeIds' = toggled.expanded
               /\ callTree' = _computeAllVisibleRows(toggled.tree, toggled.expanded).tree
       /\ UnchangedByTreeView

\* _onRowClicked with the main button on a visible row.
OnRowClicked ==
  \E nodeId \in SeqToSet(_computeAllVisibleRows(callTree, expandedNodeIds).arr) :
    /\ selectedNodeId' = nodeId
    /\ lastKeyDown' = NotComputed
    /\ UNCHANGED <<expandedNodeIds, callTree>>
    /\ UnchangedByTreeView

\* onToggle of the row of a visible node that has children.
OnToggle ==
  \E nodeId \in SeqToSet(_computeAllVisibleRows(callTree, expandedNodeIds).arr) :
    LET toggled == _toggle(callTree, expandedNodeIds, nodeId,
                           nodeId \notin expandedNodeIds, FALSE)
    IN /\ hasChildren(callTree, nodeId)
       /\ expandedNodeIds' = toggled.expanded
       /\ callTree' = _computeAllVisibleRows(StoreChildren(toggled.tree, nodeId),
                                             toggled.expanded).tree
       /\ lastKeyDown' = NotComputed
       /\ UNCHANGED selectedNodeId
       /\ UnchangedByTreeView

NextTreeView == OnKeyDown \/ OnRowClicked \/ OnToggle

SpecTreeView == InitTreeView /\ [][NextTreeView]_vars

\* ===================================================== transform stack to URL
\* The transform stacks of the url state: up to MaxStackTransforms transforms of
\* the ten types, with non-negative indexes, the three implementation tags, and
\* paths of up to two func indexes that take one or two characters each.
MaxStackTransforms == 2

StackIndexes == {0, 7, 12}
StackImplementations == {ImplementationCombined, ImplementationJs, ImplementationCpp}
StackCallNodePaths == { <<>>, <<0>>, <<1, 33>>, <<40, 5>> }

StackTransforms ==
  { [type |-> t, funcIndex |-> f] :
      t \in {"merge-function", "focus-function", "drop-function",
             "collapse-function-subtree"},
      f \in StackIndexes }
  \cup { [type |-> "focus-category", category |-> c] : c \in StackIndexes }
  \cup { [type |-> "collapse-resource", resourceIndex |-> r, collapsedFuncIndex |-> f,
          implementation |-> i] :
           r \in {0, 12}, f \in {0, 7}, i \in StackImplementations }
  \cup { [type |-> t, funcIndex |-> f, implementation |-> i] :
           t \in {"collapse-direct-recursion", "collapse-indirect-recursion"},
           f \in {0, 12}, i \in StackImplementations }
  \cup { [type |-> "focus-subtree", implementation |-> i, callNodePath |-> p,
          inverted |-> inv] :
           i \in StackImplementations, p \in StackCallNodePaths, inv \in BOOLEAN }
  \cup { [type |-> "merge-call-node", implementation |-> i, callNodePath |-> p] :
           i \in StackImplementations, p \in StackCallNodePaths }

TransformStacks == UNION { [1..n -> StackTransforms] : n \in 0..MaxStackTransforms }

InitUrlStack ==
  /\ committedTransformStack \in TransformStacks
  /\ urlTransforms = NotComputed
  /\ restoredTransformStack = NotComputed
  /\ OthersThanUrlStackIdle

\* The URL is written from the url state.
StringifyTransformStack ==
  /\ ~urlTransforms.computed
  /\ urlTransforms' = [computed |-> TRUE, string |-> stringifyTransforms(committedTransformStack)]
  /\ UNCHANGED <<committedTransformStack, restoredTransformStack, othersThanUrlStack>>

\* The url state is read back from the URL.
ParseUrlTransforms ==
  /\ urlTransforms.computed
  /\ ~restoredTransformStack.computed
  /\ restoredTransformStack' =
       [computed |-> TRUE, transforms |-> parseTransforms(urlTransforms.string)]
  /\ UNCHANGED <<committedTransformStack, urlTransforms, othersThanUrlStack>>

NextUrlStack == StringifyTransformStack \/ ParseUrlTransforms

SpecUrlStack == InitUrlStack /\ [][NextUrlStack]_vars

\* ===================================================== thread selectors cache
MaxThreadIndex == 3        \* the profile has the threads 0..MaxThreadIndex
MergedSelectorsLimit == 5  \* memoize(..., { limit: 5 })
MaxRequestsKept == 3       \* the history kept of the calls

\* profile-data getThreadsKey: the thread indexes in ascending order.
RECURSIVE getThreadsKey(_)
getThreadsKey(threadIndexes) ==
  IF threadIndexes = {} THEN <<>>
  ELSE LET last == CHOOSE i \in threadIndexes : \A j \in threadIndexes : j <= i
       IN Append(getThreadsKey(threadIndexes \ {last}), last)

\* The cache of the memoized function after a call with threadsKey: the key
\* becomes the most recently used one, and the least recently used key is
\* dropped when the cache holds more than its limit.
MemoizeStore(cache, threadsKey) ==
  LET others == SelectSeq(cache, LAMBDA k : k # threadsKey)
      stored == Append(others, threadsKey)
  IN IF Len(stored) > MergedSelectorsLimit THEN Tail(stored) ELSE stored

\* What the callers hand to getThreadSelectors: the index of the first thread,
\* the set of it alone, or a set of two thread indexes.
SingleThreadIndexes == {0}
ThreadIndexSets ==
  { {i} : i \in SingleThreadIndexes }
  \cup { set \in SUBSET (0..MaxThreadIndex) : Cardinality(set) = 2 }

KeepLast(requests, request) ==
  LET all == Append(requests, request)
  IN IF Len(all) > MaxRequestsKept THEN Tail(all) ELSE all

InitSelectors ==
  /\ threadSelectorsCache = {}
  /\ mergedThreadSelectorsCache = <<>>
  /\ selectorRequests = <<>>
  /\ selectorsBuilt = FALSE
  /\ OthersThanSelectorsIdle

\* getSingleThreadSelectors: the selectors of a thread index are built once.
GetSingleThreadSelectors(threadIndex) ==
  /\ threadSelectorsCache' = threadSelectorsCache \cup {threadIndex}
  /\ selectorRequests' = KeepLast(selectorRequests, <<threadIndex>>)
  /\ selectorsBuilt' = (threadIndex \notin threadSelectorsCache)
  /\ UNCHANGED <<mergedThreadSelectorsCache, othersThanSelectors>>

\* getThreadSelectorsFromThreadsKey for more than one thread index.
GetMergedThreadSelectors(threadsKey) ==
  /\ mergedThreadSelectorsCache' = MemoizeStore(mergedThreadSelectorsCache, threadsKey)
  /\ selectorRequests' = KeepLast(selectorRequests, threadsKey)
  /\ selectorsBuilt' = (\A i \in 1..Len(mergedThreadSelectorsCache) :
                          mergedThreadSelectorsCache[i] # threadsKey)
  /\ UNCHANGED <<threadSelectorsCache, othersThanSelectors>>

\* getThreadSelectors(threadIndex)
GetThreadSelectorsOfIndex ==
  \E threadIndex \in SingleThreadIndexes :
    IF threadIndex \in 0..MaxThreadIndex
    THEN GetSingleThreadSelectors(threadIndex)
    ELSE UNCHANGED vars

\* getThreadSelectors(threadIndexes)
GetThreadSelectorsOfSet ==
  \E threadIndexes \in ThreadIndexSets :
    IF Cardinality(threadIndexes) = 1
    THEN GetSingleThreadSelectors(CHOOSE i \in threadIndexes : TRUE)
    ELSE GetMergedThreadSelectors(getThreadsKey(threadIndexes))

NextSelectors == GetThreadSelectorsOfIndex \/ GetThreadSelectorsOfSet

SpecSelectors == InitSelectors /\ [][NextSelectors]_vars

\* ===================================================== store: view phase, layout
\* The view reducer; of the view state the phase is kept.
view_profileLoadedIgnored(state, action) ==
  CASE action.type = "TEMPORARY_ERROR" -> "INITIALIZING"
    [] action.type = "FATAL_ERROR" -> "FATAL_ERROR"
    [] action.type \in {"WAITING_FOR_PROFILE_FROM_BROWSER", "WAITING_FOR_PROFILE_FROM_URL",
                        "WAITING_FOR_PROFILE_FROM_FILE"} -> "INITIALIZING"
    [] action.type = "ROUTE_NOT_FOUND" -> "ROUTE_NOT_FOUND"
    [] action.type \in {"REVERT_TO_PRE_PUBLISHED_STATE", "SANITIZED_PROFILE_PUBLISHED"} ->
         "TRANSITIONING_FROM_STALE_PROFILE"
    [] action.type = "DATA_RELOAD" -> "DATA_RELOAD"
    [] action.type \in {"RECEIVE_ZIP_FILE", "VIEW_FULL_PROFILE",
                        "VIEW_ORIGINS_PROFILE", "VIEW_ACTIVE_TAB_PROFILE"} -> "DATA_LOADED"
    [] OTHER -> state

view(state, action) ==
  CASE action.type = "TEMPORARY_ERROR" -> "INITIALIZING"
    [] action.type = "FATAL_ERROR" -> "FATAL_ERROR"
    [] action.type \in {"WAITING_FOR_PROFILE_FROM_BROWSER", "WAITING_FOR_PROFILE_FROM_URL",
                        "WAITING_FOR_PROFILE_FROM_FILE"} -> "INITIALIZING"
    [] action.type = "ROUTE_NOT_FOUND" -> "ROUTE_NOT_FOUND"
    [] action.type \in {"REVERT_TO_PRE_PUBLISHED_STATE", "SANITIZED_PROFILE_PUBLISHED"} ->
         "TRANSITIONING_FROM_STALE_PROFILE"
    [] action.type = "DATA_RELOAD" -> "DATA_RELOAD"
    [] action.type \in {"PROFILE_LOADED", "RECEIVE_ZIP_FILE", "VIEW_FULL_PROFILE",
                        "VIEW_ORIGINS_PROFILE", "VIEW_ACTIVE_TAB_PROFILE"} -> "DATA_LOADED"
    [] OTHER -> state

\* The action types that change the layout of the panels.
PanelLayoutActionTypes ==
  {"INCREMENT_PANEL_LAYOUT_GENERATION", "CHANGE_SIDEBAR_OPEN_STATE", "HIDE_GLOBAL_TRACK",
   "SHOW_ALL_TRACKS", "SHOW_PROVIDED_TRACKS", "HIDE_PROVIDED_TRACKS", "SHOW_GLOBAL_TRACK",
   "SHOW_GLOBAL_TRACK_INCLUDING_LOCAL_TRACKS", "ISOLATE_PROCESS",
   "ISOLATE_PROCESS_MAIN_THREAD", "HIDE_LOCAL_TRACK", "SHOW_LOCAL_TRACK",
   "ISOLATE_LOCAL_TRACK", "TOGGLE_RESOURCES_PANEL", "ENABLE_EXPERIMENTAL_CPU_GRAPHS",
   "ENABLE_EXPERIMENTAL_PROCESS_CPU_TRACKS", "COMMIT_RANGE", "POP_COMMITTED_RANGES",
   "UPDATE_BOTTOM_BOX", "CLOSE_BOTTOM_BOX_FOR_TAB"}

panelLayoutGeneration(state, action) ==
  IF action.type \in PanelLayoutActionTypes THEN state + 1 ELSE state

\* combineReducers, for the two slices of the model.
regularRootReducer(state, action) ==
  [view |-> view(state.view, action),
   panelLayoutGeneration |-> panelLayoutGeneration(state.panelLayoutGeneration, action)]

\* wrapReducerInResetter(regularRootReducer)
rootReducer(state, action) ==
  IF action.type = "REVERT_TO_PRE_PUBLISHED_STATE" THEN action.prePublishedState
  ELSE regularRootReducer(state, action)

\* ---- retrieveProfile
MaxRetrievals == 2
Retrievals == 1..MaxRetrievals

\* What unserializeProfileOfArbitraryFormat settles with: a profile with data,
\* undefined, a profile without samples and markers, or a rejection.
ParseOutcomes == {"profile", "undefined", "empty", "rejected"}

InitRetrieveProfile ==
  /\ appState \in [view : {"INITIALIZING", "DATA_LOADED", "FATAL_ERROR"},
                   panelLayoutGeneration : {0}]
  /\ prePublishedState = NotComputed
  /\ retrievals = [r \in Retrievals |->
                     [pc |-> "idle", outcome |-> "none", phaseAtStart |-> "none",
                      phaseAtEnd |-> "none"]]
  /\ OthersThanStoreIdle

\* retrieveProfile up to its await: dispatch(waitingForProfileFromFile()).
StartRetrieveProfile(r) ==
  /\ retrievals[r].pc = "idle"
  /\ appState' = rootReducer(appState, [type |-> "WAITING_FOR_PROFILE_FROM_FILE"])
  /\ retrievals' = [retrievals EXCEPT ![r].pc = "parsing",
                                      ![r].phaseAtStart = appState'.view]
  /\ UNCHANGED <<prePublishedState, othersThanStore>>

\* The promise of unserializeProfileOfArbitraryFormat settles.
SettleParsing(r) ==
  \E outcome \in ParseOutcomes :
    /\ retrievals[r].pc = "parsing"
    /\ retrievals' = [retrievals EXCEPT ![r].pc = "settled", ![r].outcome = outcome]
    /\ UNCHANGED <<appState, prePublishedState, othersThanStore>>

\* retrieveProfile after its await: loadProfile dispatches PROFILE_LOADED for a
\* profile with data; everything else is thrown and caught, and fatalError is
\* dispatched.
FinishRetrieveProfile(r) ==
  /\ retrievals[r].pc = "settled"
  /\ appState' = rootReducer(appState,
                   IF retrievals[r].outcome = "profile"
                   THEN [type |-> "PROFILE_LOADED"]
                   ELSE [type |-> "FATAL_ERROR"])
  /\ retrievals' = [retrievals EXCEPT ![r].pc = "done",
                                      ![r].phaseAtEnd = appState'.view]
  /\ UNCHANGED <<prePublishedState, othersThanStore>>

\* An action of another origin reaches the store while a profile is retrieved.
DispatchDuringRetrieval ==
  \E type \in {"ROUTE_NOT_FOUND", "DATA_RELOAD", "TEMPORARY_ERROR"} :
    /\ \E r \in Retrievals : retrievals[r].pc \in {"parsing", "settled"}
    /\ appState' = rootReducer(appState, [type |-> type])
    /\ appState' # appState
    /\ UNCHANGED <<prePublishedState, retrievals, othersThanStore>>

NextRetrieveProfile ==
  \/ \E r \in Retrievals : StartRetrieveProfile(r)
  \/ \E r \in Retrievals : SettleParsing(r)
  \/ \E r \in Retrievals : FinishRetrieveProfile(r)
  \/ DispatchDuringRetrieval

\* The continuation of a settled promise is run.
SpecRetrieveProfile ==
  /\ InitRetrieveProfile
  /\ [][NextRetrieveProfile]_vars
  /\ \A r \in Retrievals : WF_vars(FinishRetrieveProfile(r))

\* ---- root reducer
MaxGeneration == 3

\* The action types dispatched: six of those the view reducer knows, three of those
\* that change the panel layout, and one that neither reducer knows.
DispatchedActionTypes ==
  {"TEMPORARY_ERROR", "FATAL_ERROR", "WAITING_FOR_PROFILE_FROM_FILE", "ROUTE_NOT_FOUND",
   "DATA_RELOAD", "PROFILE_LOADED",
   "INCREMENT_PANEL_LAYOUT_GENERATION", "COMMIT_RANGE", "UPDATE_BOTTOM_BOX",
   "FOCUS_CALL_TREE"}

InitRootReducer ==
  /\ appState = [view |-> "INITIALIZING", panelLayoutGeneration |-> 0]
  /\ prePublishedState = NotComputed
  /\ retrievals = <<>>
  /\ OthersThanStoreIdle

Dispatch ==
  \E type \in DispatchedActionTypes :
    /\ type \in PanelLayoutActionTypes => appState.panelLayoutGeneration < MaxGeneration
    /\ appState' = rootReducer(appState, [type |-> type])
    /\ UNCHANGED <<prePublishedState, retrievals, othersThanStore>>

\* A sanitized profile is published: the action carries the state of the store
\* before it, which the publishing code keeps for a later revert.
PublishSanitizedProfile ==
  /\ prePublishedState' = [computed |-> TRUE, state |-> appState]
  /\ appState' = rootReducer(appState, [type |-> "SANITIZED_PROFILE_PUBLISHED",
                                        prePublishedState |-> appState])
  /\ UNCHANGED <<retrievals, othersThanStore>>

\* The revert is dispatched with the state kept at the publication.
RevertToPrePublishedState ==
  /\ prePublishedState.computed
  /\ appState' = rootReducer(appState, [type |-> "REVERT_TO_PRE_PUBLISHED_STATE",
                                        prePublishedState |-> prePublishedState.state])
  /\ UNCHANGED <<prePublishedState, retrievals, othersThanStore>>

NextRootReducer == Dispatch \/ PublishSanitizedProfile \/ RevertToPrePublishedState

SpecRootReducer == InitRootReducer /\ [][NextRootReducer]_vars

\* ============================================================== properties
\* Vocabulary of the properties, written independently of the operators above.
RECURSIVE SumOver(_, _)
SumOver(f, S) ==
  IF S = {} THEN 0
  ELSE LET x == CHOOSE y \in S : TRUE IN f[x] + SumOver(f, S \ {x})

\* The samples table the summary was computed from, and the weight of each row.
TreeSamples == callTree.thread.samples
TreeWeights ==
  [i \in 1..Len(TreeSamples.stack) |->
     IF TreeSamples.hasWeight THEN TreeSamples.weight[i] ELSE 1]
SamplesWithStack == { i \in 1..Len(TreeSamples.stack) : TreeSamples.stack[i] # NullStack }
SampleCallNode(i) == callTree.callNodeInfo.stackIndexToCallNodeIndex[TreeSamples.stack[i]]

TreePrefix == callTree.callNodeTable.prefix
TreeFunc == callTree.callNodeTable.func
TreeSelf == callTree.callNodeSummary.self
TreeTotal == callTree.callNodeSummary.total
CallNodes == 1..Len(TreePrefix)

RECURSIVE Ancestors(_, _)
Ancestors(prefix, n) ==
  IF prefix[n] = NoPrefix THEN {} ELSE {prefix[n]} \cup Ancestors(prefix, prefix[n])
Subtree(n) == {n} \cup { m \in CallNodes : n \in Ancestors(TreePrefix, m) }

Rendered == callTree.computed /\ NoPrefix \in DOMAIN callTree.children

\* ---- C1
\* C1: the array aggregation starts from (self when invert is off, leaf when
\* invert is on) sums to the weight of the samples with a non-null stack, a
\* sample of a table without weight column counting 1.
C1_StartArraySumsToSampleWeights ==
  callTree.computed =>
    LET start == IF invertCallstack THEN callTreeCountsAndSummary.callNodeLeaf
                 ELSE TreeSelf
    IN SumSeq(start) = SumOver(TreeWeights, SamplesWithStack)

C1_Witness ==
  /\ callTree.computed /\ invertCallstack /\ TreeSamples.hasWeight
  /\ \E i, j \in 1..Len(TreeSamples.stack) :
       TreeSamples.stack[i] = NullStack /\ TreeSamples.stack[j] # NullStack

\* ---- C2
\* C2 as stated: in a non-inverted summary every total is the node's self plus
\* the self of all its descendants.
C2_TotalIsInclusiveSelf ==
  (callTree.computed /\ ~invertCallstack) =>
    \A n \in CallNodes : TreeTotal[n] = SumOver(TreeSelf, Subtree(n))

\* C2 amended: in a non-inverted summary every total is the node's self plus
\* the self of all its descendants, except that the total of call node 0 is 0
\* when that sum is less than 10.
C2_TotalIsInclusiveSelfUnlessSnapped ==
  (callTree.computed /\ ~invertCallstack) =>
    \A n \in CallNodes :
      TreeTotal[n] = IF n = 1 /\ SumOver(TreeSelf, Subtree(1)) < 10 THEN 0
                     ELSE SumOver(TreeSelf, Subtree(n))

C2_Witness ==
  /\ callTree.computed /\ ~invertCallstack
  /\ \E n \in CallNodes : \E m \in Subtree(n) \ {n} :
       TreeSelf[m] # 0 /\ TreeSelf[n] # 0 /\ TreeTotal[n] = TreeSelf[n] + TreeSelf[m]

\* ---- C3 and C6: the scenario thread
\* Three unweighted samples that all have the single stack A -> B -> C.
ScenarioThread ==
  [stackTable |-> [prefix |-> <<0, 1, 2>>, func |-> <<1, 2, 3>>],
   samples |-> [stack |-> <<3, 3, 3>>, hasWeight |-> FALSE, weight |-> <<>>,
                time |-> <<0, 0, 0>>]]

\* The tree is one root with func funcs[1], whose only child has func funcs[2],
\* whose only child has func funcs[3], with the given totals and selfs.
IsChainTree(tree, funcs, totals, selfs) ==
  LET roots == getRoots(tree)
      NodeIs(n, k) == /\ tree.callNodeTable.func[n] = funcs[k]
                      /\ tree.callNodeSummary.total[n] = totals[k]
                      /\ tree.callNodeSummary.self[n] = selfs[k]
  IN /\ Len(roots) = 1
     /\ NodeIs(roots[1], 1)
     /\ LET children == getChildren(tree, roots[1])
        IN /\ Len(children) = 1
           /\ NodeIs(children[1], 2)
           /\ LET grandChildren == getChildren(tree, children[1])
              IN Len(grandChildren) = 1 /\ NodeIs(grandChildren[1], 3)

\* C3 as stated: invert off, the tree of the scenario thread is A (total 3,
\* self 0) -> B (total 3, self 0) -> C (total 3, self 3).
C3_ScenarioTree ==
  (thread = ScenarioThread /\ ~invertCallstack /\ callTree.computed) =>
    IsChainTree(callTree, <<1, 2, 3>>, <<3, 3, 3>>, <<0, 0, 3>>)

\* C3 amended: invert off, the tree of the scenario thread is A (total 0,
\* because the root total 3 is less than 10; self 0) -> B (total 3, self 0)
\* -> C (total 3, self 3).
C3_ScenarioTreeRootSnapped ==
  (thread = ScenarioThread /\ ~invertCallstack /\ callTree.computed) =>
    IsChainTree(callTree, <<1, 2, 3>>, <<0, 3, 3>>, <<0, 0, 3>>)

C3_Witness == thread = ScenarioThread /\ ~invertCallstack /\ Rendered

\* ---- C4
\* C4 as stated: the total of call node 0 of a non-inverted summary is replaced
\* by 0 exactly when its absolute value is below 10; every other total is the
\* accumulated one.
C4_SnapIffAbsBelowTen ==
  callTree.computed =>
    \A n \in CallNodes :
      TreeTotal[n] =
        IF ~invertCallstack /\ n = 1
           /\ Abs(callTreeCountsAndSummary.accumulatedTotal[1]) < 10
        THEN 0
        ELSE callTreeCountsAndSummary.accumulatedTotal[n]

\* ---- C5
\* C5: in inverted mode leaf[n] is the weight of the samples whose call node is
\* n, self is 0 at every non-root call node, and the self of a root is the
\* weight of the samples whose call node lies in the root's subtree.
C5_InvertedSelfAtRoots ==
  (callTree.computed /\ invertCallstack) =>
    \A n \in CallNodes :
      /\ callTreeCountsAndSummary.callNodeLeaf[n] =
           SumOver(TreeWeights, { i \in SamplesWithStack : SampleCallNode(i) = n })
      /\ TreeSelf[n] =
           IF TreePrefix[n] = NoPrefix
           THEN SumOver(TreeWeights,
                        { i \in SamplesWithStack : SampleCallNode(i) \in Subtree(n) })
           ELSE 0

C5_Witness ==
  /\ callTree.computed /\ invertCallstack
  /\ \E i \in SamplesWithStack : TreePrefix[SampleCallNode(i)] # NoPrefix
  /\ \E n, m \in CallNodes : n # m /\ TreePrefix[n] = NoPrefix /\ TreePrefix[m] = NoPrefix
                             /\ TreeSelf[n] # 0 /\ TreeSelf[m] # 0

\* ---- C6
\* C6: invert on, the tree of the scenario thread is C (total 3, self 3) ->
\* B (total 3, self 0) -> A (total 3, self 0).
C6_ScenarioTreeInverted ==
  (thread = ScenarioThread /\ invertCallstack /\ callTree.computed) =>
    IsChainTree(callTree, <<3, 2, 1>>, <<3, 3, 3>>, <<3, 0, 0>>)

C6_Witness == thread = ScenarioThread /\ invertCallstack /\ Rendered

\* ---- C7

\* C7: getChildren(n), for every call node n and for the root level, holds
\* exactly the rows whose prefix is n and whose total or child count is
\* non-zero, each once.
C7_ChildrenAreTheNonEmptyRows ==
  callTree.computed =>
    \A n \in {NoPrefix} \cup CallNodes :
      LET children == getChildren(callTree, n)
          expected == { c \in CallNodes :
                          /\ TreePrefix[c] = n
                          /\ (TreeTotal[c] # 0 \/ callTree.callNodeChildCount[c] # 0) }
      IN SeqToSet(children) = expected /\ Len(children) = Cardinality(expected)

C7_Witness ==
  /\ Rendered
  /\ \E a, b, c \in CallNodes :
       /\ a # b /\ TreePrefix[a] = TreePrefix[b]
       /\ TreeTotal[a] = 0 /\ callTree.callNodeChildCount[a] = 0
       /\ TreeTotal[b] = 0 /\ callTree.callNodeChildCount[b] # 0
       /\ SeqContains(getChildren(callTree, TreePrefix[b]), b)
       /\ ~SeqContains(getChildren(callTree, TreePrefix[a]), a)

\* ---- C8
\* C8: getChildren is ordered by non-increasing absolute total, and of two
\* children with totals of equal magnitude and opposite sign the non-negative
\* one comes first.
C8_ChildrenOrder ==
  callTree.computed =>
    \A n \in {NoPrefix} \cup CallNodes :
      LET children == getChildren(callTree, n)
      IN \A i, j \in 1..Len(children) :
           i < j =>
             /\ Abs(TreeTotal[children[i]]) >= Abs(TreeTotal[children[j]])
             /\ (TreeTotal[children[i]] = -TreeTotal[children[j]]
                 /\ TreeTotal[children[i]] # 0) => TreeTotal[children[i]] >= 0

C8_Witness ==
  /\ Rendered
  /\ \E a, b \in CallNodes :
       /\ a < b /\ TreePrefix[a] = NoPrefix /\ TreePrefix[b] = NoPrefix
       /\ TreeTotal[a] < 0 /\ TreeTotal[b] = -TreeTotal[a]
       /\ getRoots(callTree) = <<b, a>>

\* ---- C9
\* C9: for an empty call-node table the summary has root count 0 and getRoots()
\* is empty, with invert off and on.
C9_EmptyTable ==
  (callTree.computed /\ CallNodes = {}) =>
    /\ callTreeCountsAndSummary.rootCount = 0
    /\ callTree.rootCount = 0
    /\ getRoots(callTree) = <<>>
    /\ TreeTotal = <<>> /\ TreeSelf = <<>>

C9_Witness ==
  /\ Rendered /\ invertCallstack /\ CallNodes = {}
  /\ Len(thread.stackTable.prefix) = 0 /\ Len(thread.samples.stack) > 0

\* ---- C10
\* The thread after, in this order, the tab filter, the committed-range filter,
\* the transform stack, the implementation filter, the search filter and the
\* invert filter.
FilteredThreadAsDocumented ==
  LET tab == IF relevantPages = {} THEN thread
             ELSE filterThreadByTab(thread, relevantPages)
      range == filterThreadSamplesToRange(tab, committedRange.start, committedRange.end)
      transformed == applyTransformStack(range, transforms)
      implemented == filterThreadByImplementation(transformed, implementation)
      searched == filterThreadToSearchStrings(implemented, searchStrings)
  IN IF invertCallstack THEN invertCallstack_(searched) ELSE searched

\* C10: the filtered thread the call tree is built from is the thread after the
\* tab, range, transform-stack, implementation, search and invert filters.
C10_FilteredThreadAppliesAllFilters ==
  /\ getFilteredThread = FilteredThreadAsDocumented
  /\ callTree.computed =>
       callTree.callNodeInfo = getCallNodeInfo(FilteredThreadAsDocumented.stackTable)

\* ---- C11
\* C11: when every sample of the thread has the stack A -> B -> C and the
\* transform stack contains drop-function(B), the filtered thread has no sample
\* with a valid stack and getRoots() of its call tree is empty.
C11_DropFunctionEmptiesTree ==
  ( /\ thread.stackTable = [prefix |-> <<0, 1, 2>>, func |-> <<1, 2, 3>>]
    /\ \A i \in 1..Len(thread.samples.stack) : thread.samples.stack[i] = 3
    /\ \E k \in 1..Len(transforms) :
         transforms[k] = [type |-> "drop-function", funcIndex |-> 2] )
  => /\ \A i \in 1..Len(getFilteredThread.samples.stack) :
          getFilteredThread.samples.stack[i] = NullStack
     /\ Rendered => callTree.children[NoPrefix] = <<>>

\* ---- C12
\* Canonical field formatting: a decimal number without sign or leading zero, one
\* of the three implementation tags, a path in which no number starts with the
\* character 0 and the last number is complete, and only the flag "i", and only
\* on a focus-subtree.
IsCanonicalNumber(field) ==
  /\ field # Undefined /\ field # <<>>
  /\ \A i \in 1..Len(field) : IsDigit(field[i])
  /\ Len(field) > 1 => field[1] # "0"

IsCanonicalImplementation(field) ==
  field \in {ImplementationJs, ImplementationCpp, ImplementationCombined}

IsCanonicalPath(field) ==
  /\ field # Undefined
  /\ \A i \in 1..Len(field) : \E k \in DOMAIN EncodingChars : EncodingChars[k] = field[i]
  /\ field # <<>> => SextetOf(field[Len(field)]) >= EncodingRadix
  /\ \A i \in 1..Len(field) :
       (field[i] = "0") => (i > 1 /\ SextetOf(field[i - 1]) < EncodingRadix)

IsCanonicalPiece(piece) ==
  LET fields == Split(piece, "-")
      shortKey == fields[1]
  IN \/ /\ shortKey \in {<<"m", "f">>, <<"f", "f">>, <<"d", "f">>, <<"c", "f", "s">>,
                         <<"f", "g">>}
        /\ Len(fields) = 2
        /\ IsCanonicalNumber(fields[2])
     \/ /\ shortKey = <<"c", "r">>
        /\ Len(fields) = 4
        /\ IsCanonicalImplementation(fields[2])
        /\ IsCanonicalNumber(fields[3])
        /\ IsCanonicalNumber(fields[4])
     \/ /\ shortKey \in {<<"r", "e", "c">>, <<"i", "r", "e", "c">>}
        /\ Len(fields) = 3
        /\ IsCanonicalImplementation(fields[2])
        /\ IsCanonicalNumber(fields[3])
     \/ /\ shortKey \in {<<"f">>, <<"m", "c", "n">>}
        /\ Len(fields) = 3 \/ (shortKey = <<"f">> /\ Len(fields) = 4 /\ fields[4] = <<"i">>)
        /\ IsCanonicalImplementation(fields[2])
        /\ IsCanonicalPath(fields[3])

IsCanonicalTransformString(s) ==
  s = <<>> \/ \A i \in 1..Len(Split(s, "~")) : IsCanonicalPiece(Split(s, "~")[i])

\* C12: decoding a transform string in canonical field formatting and encoding
\* the result again yields the original string.
C12_DecodeEncodeRoundTrip ==
  (stringifiedTransforms.computed /\ IsCanonicalTransformString(transformString))
    => stringifiedTransforms.string = transformString

\* A canonical string of three transforms, one of them an inverted focus-subtree
\* with a two-number path, has been decoded and encoded again.
C12_Witness ==
  /\ stringifiedTransforms.computed
  /\ IsCanonicalTransformString(transformString)
  /\ Len(parsedTransforms.transforms) = MaxUrlTransforms
  /\ \E i \in 1..Len(parsedTransforms.transforms) :
       /\ parsedTransforms.transforms[i].type = "focus-subtree"
       /\ parsedTransforms.transforms[i].inverted
       /\ Len(parsedTransforms.transforms[i].callNodePath) = 2
  /\ \E i \in 1..Len(parsedTransforms.transforms) :
       parsedTransforms.transforms[i].type = "collapse-resource"

\* ---- C13
KnownShortKeys ==
  { <<"f">>, <<"f", "f">>, <<"f", "g">>, <<"m", "c", "n">>, <<"m", "f">>, <<"d", "f">>,
    <<"c", "r">>, <<"r", "e", "c">>, <<"i", "r", "e", "c">>, <<"c", "f", "s">> }

UrlPieces == Split(transformString, "~")
ShortKeyOfPiece(piece) == Split(piece, "-")[1]
HasKnownShortKey(piece) == ShortKeyOfPiece(piece) \in KnownShortKeys
HasUnknownShortKey(piece) == ~HasKnownShortKey(piece)

\* C13: the entries of a transform string whose short token is unknown are
\* dropped, and the result is the decoded form of the other entries in their
\* original order: it is what decoding the string without those entries gives,
\* and one transform of the entry's type per canonical entry.
C13_UnknownShortKeysSkipped ==
  ( /\ parsedTransforms.computed
    /\ transformString # <<>>
    /\ \E i \in 1..Len(UrlPieces) : HasUnknownShortKey(UrlPieces[i]) )
  => LET others == SelectSeq(UrlPieces, HasKnownShortKey)
         decoded == parsedTransforms.transforms
     IN /\ decoded = parseTransforms(Join(others, "~"))
        /\ (\A i \in 1..Len(others) : IsCanonicalPiece(others[i]))
             => /\ Len(decoded) = Len(others)
                /\ \A i \in 1..Len(others) :
                     ShortKeyOf(decoded[i].type) = ShortKeyOfPiece(others[i])

\* A string of three entries with an unknown one in the middle has been decoded
\* to the two transforms around it, of different types.
C13_Witness ==
  /\ parsedTransforms.computed
  /\ Len(UrlPieces) = MaxUrlTransforms
  /\ HasUnknownShortKey(UrlPieces[2])
  /\ Len(parsedTransforms.transforms) = 2
  /\ parsedTransforms.transforms[1].type = "drop-function"
  /\ parsedTransforms.transforms[2].type = "focus-subtree"

\* ---- C14
\* The positions of the func, resource and category indexes among the fields of
\* an entry.
IndexFieldsOf(shortKey) ==
  CASE shortKey \in {<<"m", "f">>, <<"f", "f">>, <<"d", "f">>, <<"c", "f", "s">>,
                     <<"f", "g">>} -> {2}
    [] shortKey \in {<<"r", "e", "c">>, <<"i", "r", "e", "c">>} -> {3}
    [] shortKey = <<"c", "r">> -> {3, 4}
    [] OTHER -> {}

\* An index that is missing, is no number, or is negative (a "-" right after the
\* separator leaves an empty field).
IsMalformedIndex(fields, i) == i > Len(fields) \/ fields[i] = <<>> \/ ~IsDigit(fields[i][1])

HasMalformedIndex(piece) ==
  /\ HasKnownShortKey(piece)
  /\ \E i \in IndexFieldsOf(ShortKeyOfPiece(piece)) : IsMalformedIndex(Split(piece, "-"), i)

IsDecodable(piece) == HasKnownShortKey(piece) /\ ~HasMalformedIndex(piece)

ImageOfFunc(funcMap, func) ==
  IF func \in DOMAIN funcMap THEN funcMap[func] ELSE <<func>>

RECURSIVE ConcatImages(_, _)
ConcatImages(funcMap, path) ==
  IF path = <<>> THEN <<>>
  ELSE ImageOfFunc(funcMap, Head(path)) \o ConcatImages(funcMap, Tail(path))

\* C15: applyFuncSubstitutionToCallPath returns the path with every func that
\* is a key of the map replaced by its list, in order, and every other func
\* kept; with 7 mapped to [7,9] the path [1,7,3] becomes [1,7,9,3].
C15_PathSubstitution ==
  newCallPath.computed =>
    /\ newCallPath.result = ConcatImages(oldFuncToNewFuncsMap, newCallPath.path)
    /\ (DOMAIN oldFuncToNewFuncsMap = {7}
        /\ oldFuncToNewFuncsMap[7] = <<7, 9>>
        /\ newCallPath.path = <<1, 7, 3>>)
         => newCallPath.result = <<1, 7, 9, 3>>

C15_Witness ==
  /\ newCallPath.computed
  /\ DOMAIN oldFuncToNewFuncsMap = {7}
  /\ oldFuncToNewFuncsMap[7] = <<7, 9>>
  /\ newCallPath.path = <<1, 7, 3>>
  /\ newCallPath.result = <<1, 7, 9, 3>>

\* ---- C16
\* The proper prefixes of the substituted path that end inside the expansion of
\* the leaf of the old path.
NewAncestors(funcMap, path) ==
  LET substituted == ConcatImages(funcMap, path)
      expansion == ImageOfFunc(funcMap, path[Len(path)])
  IN { SubSeq(substituted, 1, n) :
         n \in (Len(substituted) - Len(expansion) + 1)..(Len(substituted) - 1) }

\* C16: the new path set is the substituted form of every path of the old set
\* plus, for every path whose leaf maps to more than one func, the proper
\* prefixes of the substituted path that end inside the leaf's expansion; with
\* 7 mapped to [7,9] the set {[1,7]} becomes {[1,7,9], [1,7]}.
C16_PathSetSubstitution ==
  newPathSet.computed =>
    /\ newPathSet.paths =
         { ConcatImages(oldFuncToNewFuncsMap, path) : path \in pathSet }
           \cup UNION { NewAncestors(oldFuncToNewFuncsMap, path) :
                          path \in { q \in pathSet :
                                       Len(ImageOfFunc(oldFuncToNewFuncsMap, q[Len(q)])) > 1 } }
    /\ (DOMAIN oldFuncToNewFuncsMap = {7}
        /\ oldFuncToNewFuncsMap[7] = <<7, 9>>
        /\ pathSet = {<<1, 7>>})
         => newPathSet.paths = {<<1, 7, 9>>, <<1, 7>>}

C16_Witness ==
  /\ newPathSet.computed
  /\ DOMAIN oldFuncToNewFuncsMap = {7}
  /\ oldFuncToNewFuncsMap[7] = <<7, 9>>
  /\ pathSet = {<<1, 7>>}
  /\ newPathSet.paths = {<<1, 7, 9>>, <<1, 7>>}

\* ---- C17
SelectedCallNodes == 1..Len(selectedCallTree.callNodeTable.prefix)
CompareCallNodes == 1..Len(compareCallTree.callNodeTable.prefix)
CompareTable == callNodeIndexToCompareCallNodeIndexTable.table

\* The annotation strings from the root of a tree down to a call node.
RECURSIVE AnnotationPath(_, _)
AnnotationPath(tree, n) ==
  LET annotation == tree.fileNameAnnotation[tree.callNodeTable.func[n]]
      parent == tree.callNodeTable.prefix[n]
  IN IF parent = NoPrefix THEN <<annotation>>
     ELSE Append(AnnotationPath(tree, parent), annotation)

\* The string hashed for a call node and the rolling hash of the node.
RECURSIVE HashedString(_, _)
HashedString(tree, n) ==
  LET parent == tree.callNodeTable.prefix[n]
  IN NumberToString(IF parent = NoPrefix THEN 0 ELSE cyrb53(HashedString(tree, parent)))
       \o tree.fileNameAnnotation[tree.callNodeTable.func[n]]

RollingHash(tree, n) == cyrb53(HashedString(tree, n))

\* No two of the strings hashed for the two trees have the same hash, and none
\* has the hash 0 that stands for "no parent".
HashedStrings ==
  { HashedString(selectedCallTree, n) : n \in SelectedCallNodes }
    \cup { HashedString(compareCallTree, n) : n \in CompareCallNodes }

NoHashCollision ==
  /\ \A s, t \in HashedStrings : cyrb53(s) = cyrb53(t) => s = t
  /\ \A s \in HashedStrings : cyrb53(s) # 0

HasNoHashMatch(n) ==
  \A m \in CompareCallNodes :
    RollingHash(compareCallTree, m) # RollingHash(selectedCallTree, n)

\* C18 as stated: the map has no entry for a selected call node whose rolling
\* hash is the hash of no compare call node.
C18_NoEntryWithoutMatch ==
  callNodeIndexToCompareCallNodeIndexTable.computed
  => \A n \in SelectedCallNodes : HasNoHashMatch(n) => n \notin DOMAIN CompareTable

\* C18, amended: for a selected call node whose rolling hash is the hash of no
\* compare call node the map holds an entry whose value is undefined, so that
\* get returns undefined and the row of the node shows no compare data.
C18_UndefinedEntryWithoutMatch ==
  callNodeIndexToCompareCallNodeIndexTable.computed
  => \A n \in SelectedCallNodes :
       HasNoHashMatch(n)
         => /\ n \in DOMAIN CompareTable
            /\ CompareTable[n] = NoCompareCallNode
            /\ (renderedRow.computed /\ renderedRow.nodeId = n)
                 => ~renderedRow.hasCompareDisplayData

C18_Witness ==
  /\ callNodeIndexToCompareCallNodeIndexTable.computed
  /\ renderedRow.computed
  /\ HasNoHashMatch(renderedRow.nodeId)
  /\ ~renderedRow.hasCompareDisplayData
  /\ \E n \in SelectedCallNodes : ~HasNoHashMatch(n)

\* ---- C19
SameHashCompareNodes(n) ==
  { m \in CompareCallNodes :
      RollingHash(compareCallTree, m) = RollingHash(selectedCallTree, n) }

\* C19: when several compare call nodes have the rolling hash of a selected
\* call node, the node is mapped to the one of them with the highest index.
C19_LastWriterWins ==
  callNodeIndexToCompareCallNodeIndexTable.computed
  => \A n \in SelectedCallNodes :
       Cardinality(SameHashCompareNodes(n)) > 1
         => /\ MapGet(CompareTable, n) \in SameHashCompareNodes(n)
            /\ \A m \in SameHashCompareNodes(n) : m <= MapGet(CompareTable, n)

\* Two selected call nodes share their rolling hash with two compare call
\* nodes each and are mapped to the later one, which is not the last call node.
C19_Witness ==
  /\ callNodeIndexToCompareCallNodeIndexTable.computed
  /\ \E n \in SelectedCallNodes :
       /\ Cardinality(SameHashCompareNodes(n)) = 2
       /\ MapGet(CompareTable, n) < Len(compareCallTree.callNodeTable.prefix)
       /\ \A m \in SameHashCompareNodes(n) : m <= MapGet(CompareTable, n)
       /\ \E k \in SelectedCallNodes \ {n} :
            SameHashCompareNodes(k) = SameHashCompareNodes(n)

\* ---- C20
\* The table a strategy reads besides the samples table, if any.
NeedsJsAllocations(strategy) == strategy = "js-allocations"
NeedsNativeAllocations(strategy) ==
  strategy \in {"native-allocations", "native-retained-allocations",
                "native-deallocations-sites", "native-deallocations-memory"}

LastSelectedNeedsMissingTable ==
  \/ /\ NeedsJsAllocations(lastSelectedCallTreeSummaryStrategy)
     /\ threadTables.jsAllocationsLength = AbsentTable
  \/ /\ NeedsNativeAllocations(lastSelectedCallTreeSummaryStrategy)
     /\ threadTables.nativeAllocationsLength = AbsentTable

\* C20: when the last selected strategy needs a table the thread does not have
\* (js-allocations without jsAllocations, a native-* strategy without
\* nativeAllocations), getCallTreeSummaryStrategy returns timing.
C20_FallBackToTiming ==
  (callTreeSummaryStrategy.computed /\ LastSelectedNeedsMissingTable)
    => callTreeSummaryStrategy.strategy = "timing"

\* The fallback has happened for a native strategy on a thread that has a
\* jsAllocations table but no nativeAllocations table.
C20_Witness ==
  /\ callTreeSummaryStrategy.computed
  /\ lastSelectedCallTreeSummaryStrategy = "native-deallocations-memory"
  /\ threadTables.nativeAllocationsLength = AbsentTable
  /\ threadTables.jsAllocationsLength # AbsentTable
  /\ callTreeSummaryStrategy.strategy = "timing"

\* ---- C22
\* C22 as stated: getRoots() has exactly rootCount elements and getChildren(n)
\* has exactly callNodeChildCount[n] elements, for every call node n of a tree
\* built from a summary of computeCallTreeCountsAndSummary.
C22_CountsAreLengths ==
  Rendered =>
    /\ Len(callTree.children[NoPrefix]) = callTreeCountsAndSummary.rootCount
    /\ \A n \in CallNodes :
         Len(getChildren(callTree, n)) = callTreeCountsAndSummary.callNodeChildCount[n]

\* ---- C21
\* The tree as its constructor left it: both caches empty.
FreshTree == [callTree EXCEPT !.children = <<>>, !.displayDataByIndex = <<>>]

\* What the first call of a method with an argument returns: the call is made
\* on the tree whose caches hold nothing for it.
FirstResult(method, arg) ==
  CASE method = "getRoots" -> getRoots(FreshTree)
    [] method = "getChildren" -> getChildren(FreshTree, arg)
    [] method = "hasChildren" -> hasChildren(FreshTree, arg)
    [] method = "getAllDescendants" -> getAllDescendants(FreshTree, arg).set
    [] method = "getParent" -> getParent(FreshTree, arg)
    [] method = "getDepth" -> getDepth(FreshTree, arg)
    [] method = "getNodeTotal" -> getNodeTotal(FreshTree, arg)
    [] method = "getDisplayData" -> getDisplayData(FreshTree, arg)

\* C21: whatever queries were made before it, a query on the CallTree returns
\* what the first call of that method with that argument returns.
C21_QueriesRepeat ==
  lastCall.computed => lastCall.result = FirstResult(lastCall.method, lastCall.arg)

\* getChildren returned two children after the queries before it had filled
\* both caches for every call node.
C21_Witness ==
  /\ lastCall.computed
  /\ lastCall.method = "getChildren"
  /\ Len(lastCall.result) >= 2
  /\ DOMAIN callTree.children = {NoPrefix} \cup CallNodes
  /\ DOMAIN callTree.displayDataByIndex = CallNodes

\* ---- C23
\* The children relation of the tree, read off the freshly constructed tree.
ChildrenOf(n) == SeqToSet(getChildren(FreshTree, n))

\* The nodes reached from the nodes of frontier by zero or more getChildren
\* steps, seen being the nodes already reached.
RECURSIVE ReachedFrom(_, _)
ReachedFrom(frontier, seen) ==
  IF frontier \subseteq seen THEN seen
  ELSE ReachedFrom(UNION { ChildrenOf(m) : m \in frontier \ seen }, seen \cup frontier)

\* The nodes reached from n by one or more getChildren steps.
ReachableByChildren(n) == ReachedFrom(ChildrenOf(n), {})

\* C23: getAllDescendants(n) returns a value (the recursion ends), the value is
\* the set of the nodes reachable from n by one or more getChildren steps, and
\* n is not in it.
C23_DescendantsAreReachableNodes ==
  callTree.computed =>
    /\ \A n \in CallNodes :
         /\ getAllDescendants(callTree, n).set = ReachableByChildren(n)
         /\ n \notin getAllDescendants(callTree, n).set
    /\ lastCall.computed /\ lastCall.method = "getAllDescendants" =>
         /\ lastCall.result = ReachableByChildren(lastCall.arg)
         /\ lastCall.arg \notin lastCall.result

\* getAllDescendants returned a set that holds a node two steps below n.
C23_Witness ==
  /\ lastCall.computed
  /\ lastCall.method = "getAllDescendants"
  /\ \E m \in lastCall.result :
       /\ TreePrefix[m] # lastCall.arg
       /\ TreePrefix[m] \in lastCall.result

\* ---- C24
\* The key event handled last was ArrowDown with no modifier key held, on a
\* selected row that was visible, expanded and had a child.
ArrowDownOnExpandedRow ==
  /\ lastKeyDown.computed
  /\ lastKeyDown.event = [key |-> "ArrowDown", modifier |-> "none"]
  /\ lastKeyDown.selected # NoSelection
  /\ lastKeyDown.selected \in lastKeyDown.expanded
  /\ \A a \in Ancestors(TreePrefix, lastKeyDown.selected) : a \in lastKeyDown.expanded
  /\ lastKeyDown.selected \in UNION { ChildrenOf(m) : m \in {NoPrefix} \cup CallNodes }
  /\ ChildrenOf(lastKeyDown.selected) # {}

\* C24: ArrowDown without modifier keys on a selected visible row that is
\* expanded and has children selects the first element of
\* getChildren(selected), a child of the greatest absolute total.
C24_ArrowDownSelectsHeaviestChild ==
  ArrowDownOnExpandedRow =>
    /\ selectedNodeId = getChildren(FreshTree, lastKeyDown.selected)[1]
    /\ \A c \in ChildrenOf(lastKeyDown.selected) :
         Abs(TreeTotal[c]) <= Abs(TreeTotal[selectedNodeId])

\* The case happened on a node whose first child is not its child of the
\* lowest index.
C24_Witness ==
  /\ ArrowDownOnExpandedRow
  /\ \E c \in ChildrenOf(lastKeyDown.selected) : c < selectedNodeId

\* ---- C25
\* C25: a transform stack with non-negative integer indexes and implementation
\* tags among combined, js and cpp, written with stringifyTransforms and read
\* with parseTransforms, comes back with the same transforms in the same order,
\* every field the same.
C25_EncodeDecodeRoundTrip ==
  restoredTransformStack.computed =>
    /\ Len(restoredTransformStack.transforms) = Len(committedTransformStack)
    /\ \A i \in 1..Len(committedTransformStack) :
         /\ DOMAIN restoredTransformStack.transforms[i] = DOMAIN committedTransformStack[i]
         /\ \A field \in DOMAIN committedTransformStack[i] :
              restoredTransformStack.transforms[i][field] = committedTransformStack[i][field]

\* A stack of an inverted focus-subtree on a two-func path for cpp frames and a
\* collapse-resource for js frames has been written and read back.
C25_Witness ==
  /\ restoredTransformStack.computed
  /\ Len(committedTransformStack) = MaxStackTransforms
  /\ \E i, j \in 1..Len(committedTransformStack) :
       /\ committedTransformStack[i].type = "focus-subtree"
       /\ committedTransformStack[i].inverted
       /\ committedTransformStack[i].callNodePath = <<1, 33>>
       /\ committedTransformStack[i].implementation = ImplementationCpp
       /\ committedTransformStack[j].type = "collapse-resource"
       /\ committedTransformStack[j].implementation = ImplementationJs
       /\ committedTransformStack[j].resourceIndex = 12

\* ---- C26
\* C26 as stated: the preview-filtered thread the call tree is built from holds
\* exactly the samples of the filtered thread (the preview selection is not read).
C26_PreviewThreadHasAllSamples ==
  /\ getPreviewFilteredThread.samples = getFilteredThread.samples
  /\ callTree.computed => callTree.thread.samples = getFilteredThread.samples

\* ---- C27
\* C27 as stated: whatever the thread and the last selected strategy,
\* extracting the samples-like table for the strategy the selector returns
\* does not throw.
C27_ExtractNeverThrows ==
  unfilteredSamplesForCallTree.computed => ~unfilteredSamplesForCallTree.threw

\* ---- C28
\* C28 as stated: after the selectors of a key A of more than one thread and
\* then those of another such key B were requested, a request for A builds a
\* new selectors object.
C28_OnlyLastKeyMemoized ==
  ( /\ Len(selectorRequests) = MaxRequestsKept
    /\ Len(selectorRequests[1]) > 1
    /\ Len(selectorRequests[2]) > 1
    /\ selectorRequests[1] # selectorRequests[2]
    /\ selectorRequests[3] = selectorRequests[1] )
  => selectorsBuilt

\* ---- C29
\* C29: a run of retrieveProfile first moves the view to INITIALIZING; the run
\* whose parsing has settled, resolved or rejected, comes to its end, and at its
\* end the view is DATA_LOADED or FATAL_ERROR.
C29_RetrieveEndsLoadedOrFatal ==
  /\ [](\A r \in Retrievals :
          /\ retrievals[r].pc # "idle" => retrievals[r].phaseAtStart = "INITIALIZING"
          /\ retrievals[r].pc = "done" =>
               retrievals[r].phaseAtEnd \in {"DATA_LOADED", "FATAL_ERROR"})
  /\ \A r \in Retrievals : (retrievals[r].pc = "settled") ~> (retrievals[r].pc = "done")

\* One run has ended with the profile loaded and another with a fatal error
\* after a rejection.
C29_Witness ==
  \E r, q \in Retrievals :
    /\ retrievals[r].pc = "done"
    /\ retrievals[r].outcome = "profile"
    /\ retrievals[r].phaseAtEnd = "DATA_LOADED"
    /\ retrievals[q].pc = "done"
    /\ retrievals[q].outcome = "rejected"
    /\ retrievals[q].phaseAtEnd = "FATAL_ERROR"

\* ---- C30
\* C30 as stated: no action dispatched to the root reducer makes
\* panelLayoutGeneration decrease.
C30_GenerationNeverDecreases ==
  [][appState'.panelLayoutGeneration >= appState.panelLayoutGeneration]_vars

====
